---------------------------- MODULE Spec2Model ----------------------------
(***************************************************************************)
(* A model of the Personalized PageRank fraud-detection core:              *)
(*   - SparseGraph            (src/backend/infrastructure/graph.py)        *)
(*   - the dangling-node and personalization strategies                    *)
(*                            (src/backend/domain/strategies.py)           *)
(*   - PowerIterationEngine   (src/backend/domain/pagerank.py)             *)
(*                                                                         *)
(* Real numbers are exact rationals <<numerator, denominator>> in lowest   *)
(* terms with a positive denominator, so "sums to 1 within floating-point  *)
(* tolerance" is read as "sums to exactly 1".  Vectors are sequences and   *)
(* matrices are sequences of rows; position k of a sequence is numpy       *)
(* index k-1.  A Python dict is a function on its key set; the insertion   *)
(* order of the node dict is kept in the field "order".                    *)
(***************************************************************************)
EXTENDS Integers, Sequences, FiniteSets, TLC

VARIABLES
    graph,      \* the SparseGraph instance under test
    last,       \* the last Graph Store call: its name, arguments and result
    engine,     \* the PowerIterationEngine instance, or NoEngine
    args,       \* the arguments the caller holds for its engine calls
    call,       \* the last engine call: its name and its result
    seen        \* what the caller keeps of earlier calls: the calls made and
                \* the scores the first run of its probe computation returned,
                \* the graph a subgraph call returned, the file save_to_file
                \* wrote and the graph loaded from it

vars == <<graph, last, engine, args, call, seen>>

(***************************************************************************)
(* Bounds of the model.                                                    *)
(***************************************************************************)
MaxWeight == 2

\* Largest matrix dimension and largest entry of the dense matrices handed
\* to build_transition_matrix.
MaxDim == 2
MaxEntry == 2

\* Probability vectors given to a strategy have entries k/ProbDen.
ProbDen == 2

\* Damping factors offered to the constructor are k/DampingDen for
\* k in -1..DampingDen+1, which includes 0, 1 and values outside [0,1].
DampingDen == 2

\* Largest max_iterations an engine is configured with.
MaxIterations == 2

\* Suspicion scores offered are k/SuspDen for k in 0..SuspDen; base weights
\* offered are 0..MaxBaseWeight.
SuspDen == 1
MaxBaseWeight == 1
MaxTopK == 3
MaxCalls == 3

\* A graph handed to subgraph, save_to_file or the adjacency-matrix getters
\* was built by at most MaxBuildCalls calls of add_node, add_edge and
\* remove_edge; at most MaxMutations calls follow a subgraph call.
MaxBuildCalls == 3
MaxMutations == 1

\* The cycle scenario: the iteration budgets 1..MaxCycleIterations, and rank
\* vectors with entries k/CycleGridDen as the start of one pass of the loop.
MaxCycleIterations == 3
CycleGridDen == 4

\* The iteration budget of the dense runs whose residuals are compared.
MaxResidualIterations == 3

\* Node identifiers a caller may pass to the Graph Store.
NodeIds == {"A", "B"}

\* Edge weights a caller may pass (non-negative).
Weights == 0..MaxWeight

\* Python's None where a string is expected (a node id, a return value).
NoArg == "None"

\* Python's None where an object or a dict is expected.
None == [none |-> TRUE]

\* Python's None where a numpy array is expected (arrays are never empty).
NoneArray == << >>

\* No exception was raised by a call.
NoError == "none"

\* No engine exists (before construction, or after a failed construction).
NoEngine == None

\* No engine call was made yet.
NoEngineCall == [op |-> "none"]

\* The caller holds no arguments (it makes no engine call).
NoArgs == [none |-> TRUE]

\* The caller keeps nothing of earlier calls.
NothingSeen == [none |-> TRUE]

(***************************************************************************)
(* SparseGraph                                                             *)
(***************************************************************************)

\* SparseGraph.__init__
NewGraph(isDirected) ==
    [ directed       |-> isDirected,
      order          |-> << >>,
      adjacency_list |-> << >>,
      node_to_idx    |-> << >>,
      idx_to_node    |-> << >>,
      edge_count     |-> 0 ]

\* The key set of _adjacency_list.
GraphNodes(g) == DOMAIN g.adjacency_list

\* target in self._adjacency_list[source], guarded by source in self._adjacency_list
HasEdge(g, source, target) ==
    /\ source \in GraphNodes(g)
    /\ target \in DOMAIN g.adjacency_list[source]

\* dict item assignment d[k] = v
DictSet(d, k, v) == [x \in DOMAIN d \cup {k} |-> IF x = k THEN v ELSE d[x]]

\* del d[k]
DictDel(d, k) == [x \in DOMAIN d \ {k} |-> d[x]]

\* A slip that leaves out the membership test: a node added again gets the
\* next index and an empty neighbor dict.
add_node_unguarded(g, node_id) ==
    LET idx == Cardinality(GraphNodes(g))
    IN  [g EXCEPT !.order          = IF node_id \in GraphNodes(g)
                                     THEN @ ELSE Append(@, node_id),
                  !.adjacency_list = DictSet(@, node_id, << >>),
                  !.node_to_idx    = DictSet(@, node_id, idx),
                  !.idx_to_node    = DictSet(@, idx, node_id)]

\* SparseGraph.add_node
add_node(g, node_id) ==
    IF node_id \notin GraphNodes(g)
    THEN LET idx == Cardinality(GraphNodes(g))
         IN  [g EXCEPT !.order          = Append(@, node_id),
                       !.adjacency_list = DictSet(@, node_id, << >>),
                       !.node_to_idx    = DictSet(@, node_id, idx),
                       !.idx_to_node    = DictSet(@, idx, node_id)]
    ELSE g

\* A slip that counts every add_edge call, also of a pair already stored.
add_edge_always_counts(g, source, target, weight) ==
    LET g1 == add_node(add_node(g, source), target)
        g2 == [g1 EXCEPT !.edge_count = @ + 1,
                         !.adjacency_list[source] = DictSet(@, target, weight)]
    IN  IF ~g.directed /\ source # target
        THEN [g2 EXCEPT !.edge_count = @ + 1,
                        !.adjacency_list[target] = DictSet(@, source, weight)]
        ELSE g2

\* A slip that mirrors an undirected edge only when the reverse entry is new,
\* so that re-adding a pair leaves the old weight on the reverse entry.
add_edge_stale_mirror(g, source, target, weight) ==
    LET g1 == add_node(add_node(g, source), target)
        g2 == [g1 EXCEPT !.edge_count =
                             IF target \notin DOMAIN g1.adjacency_list[source]
                             THEN @ + 1 ELSE @,
                         !.adjacency_list[source] = DictSet(@, target, weight)]
    IN  IF ~g.directed /\ source # target
           /\ source \notin DOMAIN g2.adjacency_list[target]
        THEN [g2 EXCEPT !.edge_count = @ + 1,
                        !.adjacency_list[target] = DictSet(@, source, weight)]
        ELSE g2

\* SparseGraph.add_edge
add_edge(g, source, target, weight) ==
    LET g1 == add_node(add_node(g, source), target)
        g2 == [g1 EXCEPT !.edge_count =
                             IF target \notin DOMAIN g1.adjacency_list[source]
                             THEN @ + 1 ELSE @,
                         !.adjacency_list[source] = DictSet(@, target, weight)]
    IN  IF ~g.directed /\ source # target
        THEN [g2 EXCEPT !.edge_count =
                            IF source \notin DOMAIN g2.adjacency_list[target]
                            THEN @ + 1 ELSE @,
                        !.adjacency_list[target] = DictSet(@, source, weight)]
        ELSE g2

\* A slip that reports success for every known source, stored edge or not.
remove_edge_known_source(g, source, target) ==
    IF source \in GraphNodes(g)
    THEN LET g1 == [g EXCEPT !.adjacency_list[source] = DictDel(@, target),
                             !.edge_count = @ - 1]
         IN  [g |-> g1, ret |-> "True"]
    ELSE [g |-> g, ret |-> "False"]

\* SparseGraph.remove_edge: the graph after the call and what the call
\* returned ("True", "False"), or "KeyError" when the del of the mirrored
\* entry raises, which leaves the first del and decrement in place.
remove_edge(g, source, target) ==
    IF HasEdge(g, source, target)
    THEN LET g1 == [g EXCEPT !.adjacency_list[source] = DictDel(@, target),
                             !.edge_count = @ - 1]
         IN  IF ~g.directed /\ source # target
             THEN IF source \in DOMAIN g1.adjacency_list[target]
                  THEN [g   |-> [g1 EXCEPT !.adjacency_list[target] = DictDel(@, source),
                                           !.edge_count = @ - 1],
                        ret |-> "True"]
                  ELSE [g |-> g1, ret |-> "KeyError"]
             ELSE [g |-> g1, ret |-> "True"]
    ELSE [g |-> g, ret |-> "False"]

\* A numpy array holds computed numbers: the sequence with every element
\* evaluated (a function expression alone is re-evaluated at each use).
Arr(f) == f \o << >>

\* The orders in which a Python set with the elements S can be iterated.
Orderings(S) ==
    { Arr(f) : f \in { h \in [1..Cardinality(S) -> S] :
                           { h[i] : i \in 1..Cardinality(S) } = S } }

\* subgraph, first loop: add every member of nodes that is a node of g.
RECURSIVE subgraph_nodes(_, _, _, _)
subgraph_nodes(g, sub, iteration, k) ==
    IF k > Len(iteration) THEN sub
    ELSE subgraph_nodes(g,
             IF iteration[k] \in GraphNodes(g)
             THEN add_node(sub, iteration[k]) ELSE sub,
             iteration, k + 1)

\* A slip that leaves out the test of the target: every entry of a selected
\* source is copied.
RECURSIVE subgraph_targets_unfiltered(_, _, _, _, _)
subgraph_targets_unfiltered(g, sub, nodes, source, todo) ==
    IF todo = {} THEN sub
    ELSE LET target == CHOOSE t \in todo : TRUE
         IN  subgraph_targets_unfiltered(g,
                 add_edge(sub, source, target, g.adjacency_list[source][target]),
                 nodes, source, todo \ {target})

\* subgraph, inner loop: copy the entries of one source whose target is a
\* member of nodes.  todo holds the targets still to visit; the result does
\* not depend on the order of the visits.
RECURSIVE subgraph_targets(_, _, _, _, _)
subgraph_targets(g, sub, nodes, source, todo) ==
    IF todo = {} THEN sub
    ELSE LET target == CHOOSE t \in todo : TRUE
         IN  subgraph_targets(g,
                 IF target \in nodes
                 THEN add_edge(sub, source, target, g.adjacency_list[source][target])
                 ELSE sub,
                 nodes, source, todo \ {target})

\* subgraph, second loop: the sources in the set's iteration order.
RECURSIVE subgraph_edges(_, _, _, _, _)
subgraph_edges(g, sub, nodes, iteration, k) ==
    IF k > Len(iteration) THEN sub
    ELSE subgraph_edges(g,
             IF iteration[k] \in GraphNodes(g)
             THEN subgraph_targets(g, sub, nodes, iteration[k],
                                   DOMAIN g.adjacency_list[iteration[k]])
             ELSE sub,
             nodes, iteration, k + 1)

\* SparseGraph.subgraph: nodes is a set, iteration the order in which the
\* interpreter happens to iterate it.
subgraph(g, nodes, iteration) ==
    subgraph_edges(g, subgraph_nodes(g, NewGraph(g.directed), iteration, 1),
                   nodes, iteration, 1)

(***************************************************************************)
(* The text file of a graph.  A text is a sequence of characters; a node   *)
(* id, a keyword and str(bool) are written as one character each, a number *)
(* digit by digit; a file is the sequence of its lines.                    *)
(***************************************************************************)
Digits == <<"0", "1", "2", "3", "4", "5", "6", "7", "8", "9">>

Whitespace == {" ", "\t", "\n"}

\* str(n) of an int n >= 0
RECURSIVE IntRepr(_)
IntRepr(n) ==
    IF n < 10 THEN <<Digits[n + 1]>>
    ELSE IntRepr(n \div 10) \o <<Digits[(n % 10) + 1]>>

\* str(x) of a float x with an integral value (1.0 -> "1.0")
FloatRepr(x) == IntRepr(x) \o <<".", "0">>

\* str(b) of a bool
BoolRepr(b) == IF b THEN "True" ELSE "False"

\* The str that a sequence of characters spells.
RECURSIVE Join(_)
Join(text) == IF text = << >> THEN "" ELSE text[1] \o Join(Tail(text))

\* str.strip()
RECURSIVE strip(_)
strip(text) ==
    IF text = << >> THEN text
    ELSE IF text[1] \in Whitespace THEN strip(Tail(text))
    ELSE IF text[Len(text)] \in Whitespace THEN strip(SubSeq(text, 1, Len(text) - 1))
    ELSE text

\* str.split(sep): parts holds the finished fields, field the one being read.
RECURSIVE split_from(_, _, _, _, _)
split_from(text, sep, k, field, parts) ==
    IF k > Len(text) THEN Append(parts, field)
    ELSE IF text[k] = sep
         THEN split_from(text, sep, k + 1, << >>, Append(parts, field))
         ELSE split_from(text, sep, k + 1, Append(field, text[k]), parts)

split(text, sep) == split_from(text, sep, 1, << >>, << >>)

\* int(text) of a text of decimal digits
RECURSIVE ParseInt(_)
ParseInt(text) ==
    IF text = << >> THEN 0
    ELSE 10 * ParseInt(SubSeq(text, 1, Len(text) - 1))
           + (CHOOSE v \in 0..9 : Digits[v + 1] = text[Len(text)])

\* float(text) of a text written by FloatRepr or IntRepr: the fraction
\* digits of such a text are zeros, the value is the integer part.
ParseFloat(text) == ParseInt(split(text, ".")[1])

\* The orders in which the items of the neighbor dicts can be iterated: for
\* each node one order of its targets (a dict iterates in the insertion
\* order of its keys, which depends on the calls that built the graph).
ItemOrders(g) ==
    { Arr(f) : f \in
        { h \in [1..Len(g.order) -> UNION { Orderings(S) : S \in SUBSET GraphNodes(g) }] :
            \A i \in 1..Len(g.order) :
                h[i] \in Orderings(DOMAIN g.adjacency_list[g.order[i]]) } }

\* save_to_file: the lines of the targets of one source, from the k-th on.
RECURSIVE save_targets(_, _, _, _)
save_targets(g, source, targets, k) ==
    IF k > Len(targets) THEN << >>
    ELSE << <<source, ",", targets[k], ",">>
              \o FloatRepr(g.adjacency_list[source][targets[k]]) \o <<"\n">> >>
         \o save_targets(g, source, targets, k + 1)

\* save_to_file: the edge lines of the sources from the i-th on.
RECURSIVE save_sources(_, _, _)
save_sources(g, items, i) ==
    IF i > Len(g.order) THEN << >>
    ELSE save_targets(g, g.order[i], items[i], 1) \o save_sources(g, items, i + 1)

\* SparseGraph.save_to_file: the lines written; items[i] is the order in
\* which the neighbor dict of the i-th node is iterated.
save_to_file(g, items) ==
    << <<"directed", ":", BoolRepr(g.directed), "\n">>,
       <<"nodes", ":">> \o IntRepr(Cardinality(GraphNodes(g))) \o <<"\n">>,
       <<"edges", ":">> \o IntRepr(g.edge_count) \o <<"\n">> >>
    \o save_sources(g, items, 1)

\* load_from_file: one edge line.
load_line(g, line) ==
    IF strip(line) = << >> THEN g
    ELSE LET parts == split(strip(line), ",")
         IN  IF Len(parts) >= 2
             THEN add_edge(g, Join(parts[1]), Join(parts[2]),
                           IF Len(parts) > 2 THEN ParseFloat(parts[3]) ELSE 1)
             ELSE g

\* load_from_file: the lines from the k-th on.
RECURSIVE load_lines(_, _, _)
load_lines(g, lines, k) ==
    IF k > Len(lines) THEN g
    ELSE load_lines(load_line(g, lines[k]), lines, k + 1)

\* SparseGraph.load_from_file
load_from_file(lines) ==
    load_lines(NewGraph(Join(split(strip(lines[1]), ":")[2]) = "True"), lines, 4)

(***************************************************************************)
(* The Graph Store as a state machine: a caller applies add_node, add_edge *)
(* and remove_edge in any order to one graph.                              *)
(***************************************************************************)
NoCall == [op |-> "none", source |-> NoArg, target |-> NoArg, weight |-> 0, ret |-> NoArg]

GraphInit ==
    /\ \E d \in BOOLEAN : graph = NewGraph(d)
    /\ last = NoCall
    /\ engine = NoEngine
    /\ args = NoArgs
    /\ call = NoEngineCall
    /\ seen = NothingSeen

AddNodeCall ==
    \E id \in NodeIds :
        /\ graph' = add_node(graph, id)
        /\ last' = [op |-> "add_node", source |-> id, target |-> NoArg,
                    weight |-> 0, ret |-> NoArg]
        /\ UNCHANGED <<engine, args, call, seen>>

AddEdgeCall ==
    \E s \in NodeIds, t \in NodeIds, w \in Weights :
        /\ graph' = add_edge(graph, s, t, w)
        /\ last' = [op |-> "add_edge", source |-> s, target |-> t,
                    weight |-> w, ret |-> NoArg]
        /\ UNCHANGED <<engine, args, call, seen>>

RemoveEdgeCall ==
    \E s \in NodeIds, t \in NodeIds :
        LET res == remove_edge(graph, s, t)
        IN  /\ graph' = res.g
            /\ last' = [op |-> "remove_edge", source |-> s, target |-> t,
                        weight |-> 0, ret |-> res.ret]
            /\ UNCHANGED <<engine, args, call, seen>>

GraphNext == AddNodeCall \/ AddEdgeCall \/ RemoveEdgeCall

SpecGraph == GraphInit /\ [][GraphNext]_vars

(***************************************************************************)
(* Graph Store claims                                                      *)
(***************************************************************************)

\* The (source, target) entries currently stored in the adjacency lists.
StoredEntries(g) ==
    UNION { { <<s, t>> : t \in DOMAIN g.adjacency_list[s] } : s \in GraphNodes(g) }

C8_CounterMatches == graph.edge_count = Cardinality(StoredEntries(graph))

C8_ReAddStep ==
    (last'.op = "add_edge" /\ HasEdge(graph, last'.source, last'.target))
        => /\ graph'.edge_count = graph.edge_count
           /\ graph'.adjacency_list[last'.source][last'.target] = last'.weight

\* C8: after any sequence of add_node, add_edge and remove_edge calls on a
\* directed or an undirected graph, the edge counter equals the number of
\* (source, target) entries stored in the adjacency lists; and an add_edge of
\* a pair that is already stored overwrites its weight and leaves the counter
\* unchanged.
C8_EdgeCountMatchesEntries == [](C8_CounterMatches) /\ [][C8_ReAddStep]_vars

\* An undirected graph holding a self-loop and a mirrored pair, reached by
\* an add_edge call, with one entry removed before.
C8_Witness ==
    /\ ~graph.directed
    /\ last.op = "add_edge"
    /\ StoredEntries(graph) = {<<"A", "A">>, <<"A", "B">>, <<"B", "A">>}
    /\ graph.edge_count = 3
    /\ graph.adjacency_list["A"]["B"] = 2

\* C9: on an undirected graph, for all distinct nodes u and v the entry u->v
\* is stored exactly when v->u is stored, both with the same weight (a
\* self-loop being one entry), and no remove_edge call fails on the del of
\* the mirrored entry.
C9_UndirectedMirrored ==
    ~graph.directed =>
        /\ \A u \in GraphNodes(graph), v \in GraphNodes(graph) :
               u # v =>
                   /\ HasEdge(graph, u, v) <=> HasEdge(graph, v, u)
                   /\ HasEdge(graph, u, v) =>
                          graph.adjacency_list[u][v] = graph.adjacency_list[v][u]
        /\ last.ret # "KeyError"

\* An undirected graph whose pair A-B was re-added with another weight after
\* a first insertion, seen after a successful remove_edge of a self-loop.
C9_Witness ==
    /\ ~graph.directed
    /\ last.op = "remove_edge"
    /\ last.ret = "True"
    /\ HasEdge(graph, "A", "B")
    /\ graph.adjacency_list["B"]["A"] = 2

C10_RemoveStep ==
    (last'.op = "remove_edge") =>
        LET s == last'.source
            t == last'.target
            stored == HasEdge(graph, s, t)
            gone == IF ~graph.directed /\ s # t
                    THEN {<<s, t>>, <<t, s>>} ELSE {<<s, t>>}
        IN  /\ (last'.ret = "True") <=> stored
            /\ stored =>
                   /\ StoredEntries(graph') = StoredEntries(graph) \ gone
                   /\ \A e \in StoredEntries(graph') :
                          graph'.adjacency_list[e[1]][e[2]]
                              = graph.adjacency_list[e[1]][e[2]]
                   /\ GraphNodes(graph') = GraphNodes(graph)
                   /\ graph'.order = graph.order
                   /\ graph'.node_to_idx = graph.node_to_idx
                   /\ graph'.idx_to_node = graph.idx_to_node
            /\ ~stored =>
                   /\ last'.ret = "False"
                   /\ graph' = graph

\* C10: remove_edge(source, target) returns true exactly when source->target
\* was stored before the call; then that entry (and on an undirected graph
\* with source # target its mirror) is gone and all nodes and other edges
\* are as before; otherwise it returns false and the adjacency lists, the
\* node indices and the edge counter are as before.
C10_RemoveEdgeContract == [][C10_RemoveStep]_vars

\* A successful remove_edge on an undirected graph that left another edge.
C10_Witness ==
    /\ ~graph.directed
    /\ last.op = "remove_edge"
    /\ last.ret = "True"
    /\ last.source # last.target
    /\ ~HasEdge(graph, last.source, last.target)
    /\ StoredEntries(graph) # {}

\* Every node's index is its position in insertion order (counted from 0)
\* and the two index maps are inverse bijections onto 0..n-1.
C13_IndicesFollowInsertion ==
    LET n == Len(graph.order)
    IN  /\ GraphNodes(graph) = { graph.order[i] : i \in 1..n }
        /\ Cardinality(GraphNodes(graph)) = n
        /\ DOMAIN graph.node_to_idx = GraphNodes(graph)
        /\ DOMAIN graph.idx_to_node = 0..(n - 1)
        /\ \A i \in 1..n :
               /\ graph.node_to_idx[graph.order[i]] = i - 1
               /\ graph.idx_to_node[i - 1] = graph.order[i]

\* No call changes the index of a node that is present; add_node of a present
\* node changes nothing; add_edge between present nodes changes no index and
\* no stored entry but the one it writes (and its mirror).
C13_StableStep ==
    /\ \A x \in GraphNodes(graph) :
           /\ x \in GraphNodes(graph')
           /\ graph'.node_to_idx[x] = graph.node_to_idx[x]
    /\ \A i \in 1..Len(graph.order) : graph'.order[i] = graph.order[i]
    /\ (last'.op = "add_node" /\ last'.source \in GraphNodes(graph))
           => graph' = graph
    /\ (last'.op = "add_edge")
           => \A e \in StoredEntries(graph) :
                  (e \notin {<<last'.source, last'.target>>, <<last'.target, last'.source>>})
                      => /\ e \in StoredEntries(graph')
                         /\ graph'.adjacency_list[e[1]][e[2]]
                                = graph.adjacency_list[e[1]][e[2]]

\* C13: add_node is idempotent and indices are stable: after any sequence of
\* add_node, add_edge and remove_edge calls each node's index is its position
\* in first-insertion order, the node-to-index and index-to-node maps are
\* inverse bijections onto 0..n-1, and add_node (or add_edge) for a node that
\* is present changes neither any index nor any other stored edge.
C13_StableIndices == [](C13_IndicesFollowInsertion) /\ [][C13_StableStep]_vars

\* add_node was called for the first-inserted of two nodes, edges stored.
C13_Witness ==
    /\ last.op = "add_node"
    /\ Len(graph.order) = 2
    /\ last.source = graph.order[1]
    /\ StoredEntries(graph) # {}

(***************************************************************************)
(* Graphs a caller can have built, and the subgraph call followed by       *)
(* mutations of the source graph or of the returned graph.                 *)
(***************************************************************************)
\* The graphs one more call of add_node, add_edge or remove_edge gives.
GraphsStep(prev) ==
    prev \cup { add_node(g, id) : g \in prev, id \in NodeIds }
         \cup { add_edge(g, x[1], x[2], x[3]) :
                    g \in prev, x \in NodeIds \X NodeIds \X Weights }
         \cup { remove_edge(g, x[1], x[2]).g : g \in prev, x \in NodeIds \X NodeIds }

RECURSIVE GraphsAfter(_)
GraphsAfter(k) ==
    IF k = 0 THEN { NewGraph(d) : d \in BOOLEAN }
    ELSE GraphsStep(GraphsAfter(k - 1))

BuiltGraphs == GraphsAfter(MaxBuildCalls)

\* A node id that is not a node of any built graph.
Stranger == "Z"

SubgraphInit ==
    /\ graph \in BuiltGraphs
    /\ last = NoCall
    /\ engine = NoEngine
    /\ args = NoArgs
    /\ call = NoEngineCall
    /\ seen = NothingSeen

\* sub = graph.subgraph(nodes); the caller keeps sub.
SubgraphCall ==
    /\ seen = NothingSeen
    /\ \E nodes \in SUBSET (NodeIds \cup {Stranger}) :
          \E iteration \in Orderings(nodes) :
            /\ seen' = [subgraph |-> subgraph(graph, nodes, iteration),
                        mutations |-> 0]
            /\ last' = [op |-> "subgraph", on |-> "source", nodes |-> nodes]
    /\ UNCHANGED <<graph, engine, args, call>>

\* The graph object a later call is made on.
Receiver(on) == IF on = "source" THEN graph ELSE seen.subgraph

\* What a later call on one of the two graph objects leaves behind.
Mutated(on, g, op) ==
    /\ graph' = IF on = "source" THEN g ELSE graph
    /\ seen' = [seen EXCEPT !.subgraph  = IF on = "subgraph" THEN g ELSE @,
                            !.mutations = @ + 1]
    /\ last' = [op |-> op, on |-> on]
    /\ UNCHANGED <<engine, args, call>>

CanMutate == seen # NothingSeen /\ seen.mutations < MaxMutations

LaterAddNode ==
    /\ CanMutate
    /\ \E on \in {"source", "subgraph"}, id \in NodeIds :
          Mutated(on, add_node(Receiver(on), id), "add_node")

LaterAddEdge ==
    /\ CanMutate
    /\ \E on \in {"source", "subgraph"}, s \in NodeIds, t \in NodeIds :
          Mutated(on, add_edge(Receiver(on), s, t, MaxWeight), "add_edge")

LaterRemoveEdge ==
    /\ CanMutate
    /\ \E on \in {"source", "subgraph"}, s \in NodeIds, t \in NodeIds :
          Mutated(on, remove_edge(Receiver(on), s, t).g, "remove_edge")

SubgraphNext == SubgraphCall \/ LaterAddNode \/ LaterAddEdge \/ LaterRemoveEdge

SpecSubgraph == SubgraphInit /\ [][SubgraphNext]_vars

\* Right after the call: the returned graph against the source and the set.
C11_Returned ==
    (last.op = "subgraph") =>
        LET sub  == seen.subgraph
            kept == { e \in StoredEntries(graph) :
                         e[1] \in last.nodes /\ e[2] \in last.nodes }
        IN  /\ sub.directed = graph.directed
            /\ GraphNodes(sub) = last.nodes \cap GraphNodes(graph)
            /\ StoredEntries(sub) = kept
            /\ \A e \in kept :
                   sub.adjacency_list[e[1]][e[2]] = graph.adjacency_list[e[1]][e[2]]
            /\ sub.edge_count = Cardinality(StoredEntries(sub))

\* The call leaves the source as it was; a later call on one of the two
\* graphs leaves the other as it was.
C11_FrameStep ==
    /\ (last'.op = "subgraph") => graph' = graph
    /\ (last'.op # "subgraph" /\ last'.on = "source")
           => seen'.subgraph = seen.subgraph
    /\ (last'.op # "subgraph" /\ last'.on = "subgraph")
           => graph' = graph

\* C11: subgraph(S) returns a graph of the source's directedness whose nodes
\* are the members of S that are nodes of the source, whose entries are the
\* source's entries with both ends in S, with their weights, and whose edge
\* counter is the number of its entries; the source is unchanged and a later
\* mutation of either graph does not change the other.
C11_SubgraphIsInduced == [](C11_Returned) /\ [][C11_FrameStep]_vars

\* A proper subgraph was taken: an entry of the source was kept, another was
\* dropped with its target outside the set.
C11_Witness ==
    /\ last.op = "subgraph"
    /\ StoredEntries(seen.subgraph) # {}
    /\ \E e \in StoredEntries(graph) : e[1] \in last.nodes /\ e[2] \notin last.nodes
    /\ Stranger \in last.nodes

(***************************************************************************)
(* A built graph is saved to a file and the file is loaded.                *)
(***************************************************************************)
\* graph.save_to_file(path)
SaveCall ==
    /\ seen = NothingSeen
    /\ \E items \in ItemOrders(graph) :
          seen' = [file |-> save_to_file(graph, items), loaded |-> None]
    /\ last' = [op |-> "save_to_file"]
    /\ UNCHANGED <<graph, engine, args, call>>

\* loaded = SparseGraph.load_from_file(path)
LoadCall ==
    /\ seen # NothingSeen
    /\ seen.loaded = None
    /\ seen' = [seen EXCEPT !.loaded = load_from_file(seen.file)]
    /\ last' = [op |-> "load_from_file"]
    /\ UNCHANGED <<graph, engine, args, call>>

FileNext == SaveCall \/ LoadCall

SpecFile == SubgraphInit /\ [][FileNext]_vars

\* C12: for every graph built by add_node, add_edge and remove_edge, directed
\* or undirected, also one with nodes that have no incident edge, the graph
\* loaded from the file that save_to_file wrote has the same directedness,
\* the same node set, the same (source, target, weight) entries and the same
\* edge count.
C12_LoadReconstructs ==
    (last.op = "load_from_file") =>
        /\ seen.loaded.directed = graph.directed
        /\ GraphNodes(seen.loaded) = GraphNodes(graph)
        /\ StoredEntries(seen.loaded) = StoredEntries(graph)
        /\ \A e \in StoredEntries(graph) \cap StoredEntries(seen.loaded) :
               seen.loaded.adjacency_list[e[1]][e[2]] = graph.adjacency_list[e[1]][e[2]]
        /\ seen.loaded.edge_count = graph.edge_count

(***************************************************************************)
(* Exact rational arithmetic (the model's float64)                         *)
(***************************************************************************)
RECURSIVE GCD(_, _)
GCD(a, b) == IF b = 0 THEN a ELSE GCD(b, a % b)

Abs(x) == IF x < 0 THEN -x ELSE x

\* The rational n/d (d # 0) in lowest terms with a positive denominator.
Rat(n, d) ==
    LET g == GCD(Abs(n), Abs(d))
        sgn == IF d < 0 THEN -1 ELSE 1
    IN  <<(sgn * n) \div g, (sgn * d) \div g>>

Zero == Rat(0, 1)
One == Rat(1, 1)

\* Sums and comparisons go over the least common denominator and products
\* cancel across before multiplying, which keeps the integers small.  Each
\* operand is bound to its value (x, y) before the arithmetic reads it, so
\* that an operand given as an expression is evaluated once.
RAdd(a, b) ==
    CHOOSE s \in { LET g == GCD(x[2], y[2])
                   IN  Rat(x[1] * (y[2] \div g) + y[1] * (x[2] \div g),
                           (x[2] \div g) * y[2]) : x \in {a}, y \in {b} } : TRUE
RSub(a, b) ==
    CHOOSE s \in { LET g == GCD(x[2], y[2])
                   IN  Rat(x[1] * (y[2] \div g) - y[1] * (x[2] \div g),
                           (x[2] \div g) * y[2]) : x \in {a}, y \in {b} } : TRUE
RMul(a, b) ==
    CHOOSE s \in { LET g1 == GCD(Abs(x[1]), y[2])
                       g2 == GCD(Abs(y[1]), x[2])
                   IN  Rat((x[1] \div g1) * (y[1] \div g2),
                           (x[2] \div g2) * (y[2] \div g1)) : x \in {a}, y \in {b} } : TRUE
RDiv(a, b) == RMul(a, CHOOSE s \in { Rat(y[2], y[1]) : y \in {b} } : TRUE)
RLt(a, b) ==
    \E x \in {a}, y \in {b} :
        LET g == GCD(x[2], y[2])
        IN  x[1] * (y[2] \div g) < y[1] * (x[2] \div g)
RLe(a, b) ==
    \E x \in {a}, y \in {b} :
        LET g == GCD(x[2], y[2])
        IN  x[1] * (y[2] \div g) <= y[1] * (x[2] \div g)
RAbs(a) == CHOOSE s \in { <<Abs(x[1]), x[2]>> : x \in {a} } : TRUE
RMax(a, b) == IF RLt(a, b) THEN b ELSE a

\* np.sum of a vector
RECURSIVE SumTo(_, _)
SumTo(v, k) == IF k = 0 THEN Zero ELSE RAdd(SumTo(v, k - 1), v[k])
RSum(v) == CHOOSE s \in { SumTo(x, Len(x)) : x \in {v} } : TRUE

\* np.ones(n) / n
UniformVector(n) == Arr([i \in 1..n |-> Rat(1, n)])

VecAdd(u, v) ==
    CHOOSE s \in { Arr([i \in 1..Len(x) |-> RAdd(x[i], y[i])]) : x \in {u}, y \in {v} } : TRUE
VecScale(c, v) ==
    CHOOSE s \in { Arr([i \in 1..Len(y) |-> RMul(x, y[i])]) : x \in {c}, y \in {v} } : TRUE

\* np.linalg.norm(u - v, ord=1)
L1Diff(u, v) ==
    CHOOSE s \in { RSum(Arr([i \in 1..Len(x) |-> RAbs(RSub(x[i], y[i]))])) :
                       x \in {u}, y \in {v} } : TRUE

\* Column j of a matrix given as a sequence of rows.
Column(m, j) == Arr([i \in 1..Len(m) |-> m[i][j]])

NumCols(m) == IF Len(m) = 0 THEN 0 ELSE Len(m[1])

(***************************************************************************)
(* Dangling-node strategies                                                *)
(***************************************************************************)
UniformDanglingStrategy == [kind |-> "Uniform"]

\* TeleportDanglingStrategy.__init__
TeleportDanglingStrategy(personalization_vector) ==
    [kind |-> "Teleport", personalization_vector |-> personalization_vector]

\* UniformDanglingStrategy.handle_dangling_nodes: for every index i the mask
\* flags, row i of the matrix becomes 1/n in every position (n the number of
\* rows); numpy raises IndexError for a flagged index beyond the last row.
handle_uniform(transition_matrix, dangling_mask) ==
    LET n == Len(transition_matrix)
        flagged == {i \in 1..Len(dangling_mask) : dangling_mask[i]}
    IN  IF \E i \in flagged : i > n
        THEN [raised |-> "IndexError", ret |-> NoneArray]
        ELSE [raised |-> NoError,
              ret |-> Arr([i \in 1..n |->
                         IF i \in flagged
                         THEN Arr([j \in 1..NumCols(transition_matrix) |-> Rat(1, n)])
                         ELSE transition_matrix[i]])]

\* TeleportDanglingStrategy.handle_dangling_nodes: row i becomes the
\* personalization vector; numpy raises ValueError when a vector of another
\* length than the row (and not of length 1) is assigned to it.
handle_teleport(strategy, transition_matrix, dangling_mask) ==
    LET n == Len(transition_matrix)
        cols == NumCols(transition_matrix)
        personalization ==
            IF strategy.personalization_vector = NoneArray
            THEN UniformVector(n)
            ELSE strategy.personalization_vector
        flagged == {i \in 1..Len(dangling_mask) : dangling_mask[i]}
    IN  IF \E i \in flagged : i > n
        THEN [raised |-> "IndexError", ret |-> NoneArray]
        ELSE IF flagged # {} /\ Len(personalization) \notin {cols, 1}
        THEN [raised |-> "ValueError", ret |-> NoneArray]
        ELSE [raised |-> NoError,
              ret |-> Arr([i \in 1..n |->
                         IF i \in flagged
                         THEN Arr([j \in 1..cols |->
                                  IF Len(personalization) = 1
                                  THEN personalization[1] ELSE personalization[j]])
                         ELSE transition_matrix[i]])]

\* self.dangling_strategy.handle_dangling_nodes(matrix, mask)
handle_dangling_nodes(strategy, transition_matrix, dangling_mask) ==
    IF strategy.kind = "Uniform"
    THEN handle_uniform(transition_matrix, dangling_mask)
    ELSE handle_teleport(strategy, transition_matrix, dangling_mask)

(***************************************************************************)
(* Personalization strategies                                              *)
(***************************************************************************)
\* SuspicionBasedPersonalization.__init__
SuspicionBasedPersonalization(suspicion_weight) ==
    [kind |-> "SuspicionBased", suspicion_weight |-> RMax(One, suspicion_weight)]

TransactionVolumePersonalization == [kind |-> "TransactionVolume"]

\* Python truthiness of an optional dict: None and {} are both false.
Truthy(mapping) == mapping # None /\ DOMAIN mapping # {}

\* A slip that leaves out the boost of the suspicious nodes.
suspicion_vector_unboosted(strategy, node_ids, suspicious_nodes, base_weights) ==
    LET n == Len(node_ids)
        based == Arr([i \in 1..n |->
                     IF Truthy(base_weights) /\ node_ids[i] \in DOMAIN base_weights
                     THEN base_weights[node_ids[i]]
                     ELSE Rat(1, n)])
        total == RSum(based)
    IN  IF RLt(Zero, total)
        THEN Arr([i \in 1..n |-> RDiv(based[i], total)])
        ELSE based

\* SuspicionBasedPersonalization.compute_personalization_vector: start from
\* 1/n, overwrite with the base weights of known nodes, multiply the entries
\* of known suspicious nodes by 1 + (suspicion_weight - 1) * score, and
\* divide by the total when the total is positive (node ids are distinct).
suspicion_vector(strategy, node_ids, suspicious_nodes, base_weights) ==
    LET n == Len(node_ids)
        based == Arr([i \in 1..n |->
                     IF Truthy(base_weights) /\ node_ids[i] \in DOMAIN base_weights
                     THEN base_weights[node_ids[i]]
                     ELSE Rat(1, n)])
        boosted == Arr([i \in 1..n |->
                       IF Truthy(suspicious_nodes) /\ node_ids[i] \in DOMAIN suspicious_nodes
                       THEN RMul(based[i],
                                 RAdd(One, RMul(RSub(strategy.suspicion_weight, One),
                                                suspicious_nodes[node_ids[i]])))
                       ELSE based[i]])
        total == RSum(boosted)
    IN  IF RLt(Zero, total)
        THEN Arr([i \in 1..n |-> RDiv(boosted[i], total)])
        ELSE boosted

\* TransactionVolumePersonalization.compute_personalization_vector
volume_vector(node_ids, suspicious_nodes, base_weights) ==
    LET n == Len(node_ids)
    IN  IF ~Truthy(base_weights)
        THEN UniformVector(n)
        ELSE LET seeded == Arr([i \in 1..n |->
                               IF node_ids[i] \in DOMAIN base_weights
                               THEN base_weights[node_ids[i]]
                               ELSE Zero])
                 total_weight == RSum(seeded)
                 boosted == Arr([i \in 1..n |->
                                IF Truthy(suspicious_nodes)
                                   /\ node_ids[i] \in DOMAIN suspicious_nodes
                                THEN RAdd(seeded[i],
                                          RDiv(RMul(suspicious_nodes[node_ids[i]],
                                                    total_weight),
                                               Rat(n, 1)))
                                ELSE seeded[i]])
                 total == RSum(boosted)
             IN  IF RLt(Zero, total)
                 THEN Arr([i \in 1..n |-> RDiv(boosted[i], total)])
                 ELSE UniformVector(n)

\* self.personalization_strategy.compute_personalization_vector(...)
strategy_personalization_vector(strategy, node_ids, suspicious_nodes, base_weights) ==
    IF strategy.kind = "SuspicionBased"
    THEN suspicion_vector(strategy, node_ids, suspicious_nodes, base_weights)
    ELSE volume_vector(node_ids, suspicious_nodes, base_weights)

(***************************************************************************)
(* PowerIterationEngine                                                    *)
(***************************************************************************)
\* A constructor that accepts the end points 0 and 1.
engine_init_closed_interval(damping_factor, max_iterations, tolerance, dangling_strategy, personalization_strategy) ==
    IF ~(RLe(Zero, damping_factor) /\ RLe(damping_factor, One))
    THEN [e |-> NoEngine, raised |-> "ValueError"]
    ELSE [e |-> [damping_factor |-> damping_factor,
                 max_iterations |-> max_iterations,
                 tolerance |-> tolerance,
                 dangling_strategy |->
                     IF dangling_strategy = None
                     THEN UniformDanglingStrategy ELSE dangling_strategy,
                 personalization_strategy |->
                     IF personalization_strategy = None
                     THEN SuspicionBasedPersonalization(Rat(5, 1))
                     ELSE personalization_strategy,
                 transition_matrix |-> NoneArray,
                 personalization_vector |-> NoneArray,
                 page_rank |-> NoneArray,
                 iterations_performed |-> 0,
                 converged |-> FALSE],
          raised |-> NoError]

\* PowerIterationEngine.__init__: the new engine, or NoEngine and the
\* ValueError it raises.  A strategy argument of None selects the default.
engine_init(damping_factor, max_iterations, tolerance, dangling_strategy, personalization_strategy) ==
    IF ~(RLt(Zero, damping_factor) /\ RLt(damping_factor, One))
    THEN [e |-> NoEngine, raised |-> "ValueError"]
    ELSE [e |-> [damping_factor |-> damping_factor,
                 max_iterations |-> max_iterations,
                 tolerance |-> tolerance,
                 dangling_strategy |->
                     IF dangling_strategy = None
                     THEN UniformDanglingStrategy ELSE dangling_strategy,
                 personalization_strategy |->
                     IF personalization_strategy = None
                     THEN SuspicionBasedPersonalization(Rat(5, 1))
                     ELSE personalization_strategy,
                 transition_matrix |-> NoneArray,
                 personalization_vector |-> NoneArray,
                 page_rank |-> NoneArray,
                 iterations_performed |-> 0,
                 converged |-> FALSE],
          raised |-> NoError]

\* adjacency_matrix * weights, or the adjacency matrix when weights is None
WeightedAdjacency(adjacency_matrix, weights) ==
    IF weights # NoneArray
    THEN Arr([i \in 1..Len(adjacency_matrix) |->
             Arr([j \in 1..NumCols(adjacency_matrix) |->
                 RMul(adjacency_matrix[i][j], weights[i][j])])])
    ELSE adjacency_matrix

\* weighted_adj.sum(axis=0): the sum of each column
OutDegree(weighted_adj) ==
    Arr([j \in 1..NumCols(weighted_adj) |-> RSum(Column(weighted_adj, j))])

\* out_degree == 0
DanglingMask(out_degree) ==
    Arr([j \in 1..Len(out_degree) |-> out_degree[j] = Zero])

\* The column-normalized matrix before the dangling strategy is applied.
NormalizeColumns(weighted_adj, out_degree) ==
    Arr([i \in 1..Len(weighted_adj) |->
        Arr([j \in 1..NumCols(weighted_adj) |->
            IF RLt(Zero, out_degree[j])
            THEN RDiv(weighted_adj[i][j], out_degree[j])
            ELSE Zero])])

\* PowerIterationEngine.build_transition_matrix: the engine after the call
\* and the matrix returned, or the error raised by the strategy, which
\* leaves the cache as it was.
build_transition_matrix(e, adjacency_matrix, weights) ==
    LET weighted_adj == WeightedAdjacency(adjacency_matrix, weights)
        out_degree == OutDegree(weighted_adj)
        dangling_mask == DanglingMask(out_degree)
        handled ==
            handle_dangling_nodes(e.dangling_strategy,
                                  NormalizeColumns(weighted_adj, out_degree),
                                  dangling_mask)
    IN  IF handled.raised # NoError
        THEN [e |-> e, raised |-> handled.raised, ret |-> NoneArray]
        ELSE [e |-> [e EXCEPT !.transition_matrix = handled.ret],
              raised |-> NoError, ret |-> handled.ret]

\* PowerIterationEngine.compute_personalization_vector
compute_personalization_vector(e, node_ids, suspicious_nodes, base_weights) ==
    LET personalization ==
            strategy_personalization_vector(e.personalization_strategy,
                                            node_ids, suspicious_nodes, base_weights)
    IN  [e |-> [e EXCEPT !.personalization_vector = personalization],
         ret |-> personalization]

\* dict(zip(node_ids, r)) with float(score) values
ScoreDict(node_ids, r) ==
    [x \in { node_ids[i] : i \in 1..Len(node_ids) } |->
        r[CHOOSE i \in 1..Len(node_ids) :
              /\ node_ids[i] = x
              /\ \A k \in (i + 1)..Len(node_ids) : node_ids[k] # x]]

\* np.where(dangling_mask)[0], as positions in increasing order
RECURSIVE IndicesWhere(_, _)
IndicesWhere(mask, k) ==
    IF k = 0 THEN << >>
    ELSE IF mask[k] THEN Append(IndicesWhere(mask, k - 1), k)
    ELSE IndicesWhere(mask, k - 1)

\* np.eye(n)[:, dangling_indices]
DummyMatrix(n, dangling_indices) ==
    Arr([i \in 1..n |-> Arr([c \in 1..Len(dangling_indices) |->
                        IF dangling_indices[c] = i THEN One ELSE Zero])])

\* The body of the sparse loop up to the new rank vector: rM collects
\* r_prev[j] * column j / out_degree[j] over the columns with a positive
\* out-degree and r_prev[j] * dangling_teleport over the dangling columns;
\* r = (1 - damping) * rM + damping * p.
sparse_step(e, ctx, r_prev) ==
    LET n == Len(r_prev)
        rM == Arr([i \in 1..n |->
                  RSum(Arr([j \in 1..n |->
                           IF RLt(Zero, ctx.out_degree[j])
                           THEN RMul(r_prev[j],
                                     RDiv(ctx.weighted_adj[i][j], ctx.out_degree[j]))
                           ELSE IF ctx.dangling_mask[j]
                           THEN RMul(r_prev[j], ctx.dangling_teleport[i])
                           ELSE Zero]))])
    IN  VecAdd(VecScale(RSub(One, e.damping_factor), rM),
               VecScale(e.damping_factor, ctx.p))

\* for iteration in range(self.max_iterations): ... break / else, of the
\* sparse computation.  "iteration" counts the passes made so far, "trace"
\* holds the rank vector after each pass, "broke" tells a break from the
\* for-else.  sparse_loop makes the pass, sparse_check is the convergence
\* check on its result.
RECURSIVE sparse_loop(_, _, _, _, _)

\* A slip that also stops on a difference equal to the tolerance.
sparse_check_non_strict(e, ctx, r_prev, r, iteration, trace) ==
    IF RLe(L1Diff(r, r_prev), e.tolerance)
    THEN [r |-> r, broke |-> TRUE, converged |-> TRUE,
          iterations_performed |-> iteration + 1,
          trace |-> Append(trace, r)]
    ELSE sparse_loop(e, ctx, r, iteration + 1, Append(trace, r))

sparse_check(e, ctx, r_prev, r, iteration, trace) ==
    IF RLt(L1Diff(r, r_prev), e.tolerance)
    THEN [r |-> r, broke |-> TRUE, converged |-> TRUE,
          iterations_performed |-> iteration + 1,
          trace |-> Append(trace, r)]
    ELSE sparse_loop(e, ctx, r, iteration + 1, Append(trace, r))

\* The rank vector the engine cached in its last computation, when it has
\* the graph's length, in place of the fresh start vector.
WarmStart(e, r, iteration) ==
    IF iteration = 0 /\ Len(e.page_rank) = Len(r) THEN e.page_rank ELSE r

\* A loop that starts from the cached rank vector.
sparse_loop_warm_start(e, ctx, r, iteration, trace) ==
    IF iteration >= e.max_iterations
    THEN [r |-> WarmStart(e, r, iteration), broke |-> FALSE, converged |-> FALSE,
          iterations_performed |-> e.max_iterations, trace |-> trace]
    ELSE sparse_check(e, ctx, WarmStart(e, r, iteration),
                      sparse_step(e, ctx, WarmStart(e, r, iteration)),
                      iteration, trace)

sparse_loop(e, ctx, r, iteration, trace) ==
    IF iteration >= e.max_iterations
    THEN [r |-> r, broke |-> FALSE, converged |-> FALSE,
          iterations_performed |-> e.max_iterations, trace |-> trace]
    ELSE sparse_check(e, ctx, r, sparse_step(e, ctx, r), iteration, trace)

\* The end of compute_sparse_page_rank: the convergence record and the rank
\* vector are cached and the scores returned.
sparse_return(e, node_ids, run) ==
    [e |-> [e EXCEPT !.converged = run.converged,
                     !.iterations_performed = run.iterations_performed,
                     !.page_rank = run.r],
     raised |-> NoError,
     ret |-> ScoreDict(node_ids, run.r),
     broke |-> run.broke,
     trace |-> run.trace]

\* compute_sparse_page_rank from the out-degrees on, given the weighted
\* adjacency and the outcome pv of compute_personalization_vector.
sparse_iterate(node_ids, weighted_adj, pv) ==
    LET n == Len(node_ids)
        out_degree == OutDegree(weighted_adj)
        dangling_mask == DanglingMask(out_degree)
        dangling_indices == IndicesWhere(dangling_mask, n)
        handled ==
            IF dangling_indices # << >>
            THEN handle_dangling_nodes(pv.e.dangling_strategy,
                                       DummyMatrix(n, dangling_indices),
                                       Arr([c \in 1..Len(dangling_indices) |-> TRUE]))
            ELSE [raised |-> NoError, ret |-> NoneArray]
        ctx == [weighted_adj |-> weighted_adj,
                out_degree |-> out_degree,
                dangling_mask |-> dangling_mask,
                dangling_teleport |->
                    IF dangling_indices # << >> THEN pv.ret ELSE Arr([i \in 1..n |-> Zero]),
                p |-> pv.ret]
    IN  IF handled.raised # NoError
        THEN [e |-> pv.e, raised |-> handled.raised, ret |-> << >>,
              broke |-> FALSE, trace |-> << >>]
        ELSE sparse_return(pv.e, node_ids,
                           sparse_loop(pv.e, ctx, UniformVector(n), 0, << >>))

\* PowerIterationEngine.compute_sparse_page_rank: the engine after the call,
\* the exception raised (by the dangling strategy, before the loop) or the
\* scores returned, and the rank vector after each iteration.
compute_sparse_page_rank(e, node_ids, sparse_adjacency, weights, suspicious_nodes, base_weights) ==
    sparse_iterate(node_ids,
                   WeightedAdjacency(sparse_adjacency, weights),
                   compute_personalization_vector(e, node_ids, suspicious_nodes,
                                                  base_weights))

\* A slip that hands out the adjacency transposed but not normalized.
get_matrix_unnormalized(node_ids, adjacency) ==
    LET n == Len(node_ids)
    IN  [matrix |-> Arr([i \in 1..n |-> Arr([j \in 1..n |-> adjacency[j][i]])]),
         dangling_mask |-> Arr([j \in 1..n |-> RSum(adjacency[j]) = Zero]),
         node_ids |-> node_ids]

\* graph.get_normalized_matrix(), which the dense computation calls and no
\* class of the repository defines: (matrix, dangling_mask, node_ids) with
\* matrix the column-normalized adjacency restricted to the non-dangling
\* columns (matrix[i][j] the share of node j's outgoing weight that goes to
\* node i) and dangling_mask true for the nodes without outgoing weight.
\* adjacency[i][j] is the weight of the edge from node i to node j.
get_normalized_matrix(node_ids, adjacency) ==
    LET n == Len(node_ids)
    IN  [matrix |-> Arr([i \in 1..n |-> Arr([j \in 1..n |->
                        IF RLt(Zero, RSum(adjacency[j]))
                        THEN RDiv(adjacency[j][i], RSum(adjacency[j]))
                        ELSE Zero])]),
         dangling_mask |-> Arr([j \in 1..n |-> RSum(adjacency[j]) = Zero]),
         node_ids |-> node_ids]

\* The graph object handed to the dense computation: what its
\* get_normalized_matrix() returns and its _node_to_idx (0-based).
GraphView(node_ids, adjacency) ==
    [normalized |-> get_normalized_matrix(node_ids, adjacency),
     node_to_idx |-> [x \in { node_ids[i] : i \in 1..Len(node_ids) } |->
                         (CHOOSE i \in 1..Len(node_ids) : node_ids[i] = x) - 1]]

\* A slip that leaves the rank of the dangling nodes out of the dense pass.
dense_step_without_dangling(e, ctx, r_prev) ==
    LET n == Len(r_prev)
        Mr == Arr([i \in 1..n |->
                  RSum(Arr([j \in 1..n |-> RMul(ctx.matrix[i][j], r_prev[j])]))])
    IN  VecAdd(VecScale(RSub(One, e.damping_factor), Mr),
               VecScale(e.damping_factor, ctx.p))

\* The dense loop body up to the new rank vector:
\* r = (1 - damping) * (matrix @ r_prev) + (damping + (1 - damping) * dangling_sum) * p
dense_step(e, ctx, r_prev) ==
    LET n == Len(r_prev)
        dangling_sum == RSum(Arr([j \in 1..n |->
                                 IF ctx.dangling_mask[j] THEN r_prev[j] ELSE Zero]))
        Mr == Arr([i \in 1..n |->
                  RSum(Arr([j \in 1..n |-> RMul(ctx.matrix[i][j], r_prev[j])]))])
    IN  VecAdd(VecScale(RSub(One, e.damping_factor), Mr),
               VecScale(RAdd(e.damping_factor,
                             RMul(RSub(One, e.damping_factor), dangling_sum)),
                        ctx.p))

\* for iteration in range(self.max_iterations): ... break, of the dense
\* computation (the loop has no else branch): dense_loop makes the pass,
\* dense_check is the convergence check on its result.
RECURSIVE dense_loop(_, _, _, _, _)

dense_check(e, ctx, r_prev, r, iteration, trace) ==
    IF RLt(L1Diff(r, r_prev), e.tolerance)
    THEN [r |-> r, broke |-> TRUE,
          iterations_performed |-> iteration + 1,
          trace |-> Append(trace, r)]
    ELSE dense_loop(e, ctx, r, iteration + 1, Append(trace, r))

dense_loop(e, ctx, r, iteration, trace) ==
    IF iteration >= e.max_iterations
    THEN [r |-> r, broke |-> FALSE, iterations_performed |-> iteration, trace |-> trace]
    ELSE dense_check(e, ctx, r, dense_step(e, ctx, r), iteration, trace)

\* The end of the dense computation: the convergence record was written
\* only if the loop broke; the scores are returned.
dense_return(e, node_ids, run) ==
    [e |-> IF run.broke
           THEN [e EXCEPT !.converged = TRUE,
                          !.iterations_performed = run.iterations_performed]
           ELSE e,
     raised |-> NoError,
     ret |-> ScoreDict(node_ids, run.r),
     broke |-> run.broke,
     trace |-> run.trace]

\* The personalization vector of the dense computation: the suspicion
\* scores of the nodes the graph knows, normalized, or 1/n everywhere.
dense_personalization(g, n, suspicious_nodes) ==
    LET scored == Arr([i \in 1..n |->
                      IF Truthy(suspicious_nodes)
                         /\ \E x \in DOMAIN suspicious_nodes :
                                x \in DOMAIN g.node_to_idx /\ g.node_to_idx[x] = i - 1
                      THEN suspicious_nodes[CHOOSE x \in DOMAIN suspicious_nodes :
                               x \in DOMAIN g.node_to_idx /\ g.node_to_idx[x] = i - 1]
                      ELSE Zero])
    IN  IF RLt(Zero, RSum(scored))
        THEN Arr([i \in 1..n |-> RDiv(scored[i], RSum(scored))])
        ELSE UniformVector(n)

\* The dense computation from r = p.copy() on.
dense_iterate(e, normalized, p) ==
    dense_return(e, normalized.node_ids,
                 dense_loop(e, [matrix |-> normalized.matrix,
                                dangling_mask |-> normalized.dangling_mask,
                                p |-> p],
                            p, 0, << >>))

\* PowerIterationEngine.compute_page_rank (the dense computation; the source
\* spells the name with U+0640 in place of the first underscore).
compute_page_rank(e, g, suspicious_nodes) ==
    dense_iterate(e, g.normalized,
                  dense_personalization(g, Len(g.normalized.node_ids), suspicious_nodes))

(***************************************************************************)
(* Inputs offered to the engine                                            *)
(***************************************************************************)
\* n x n matrices with entries 0..MaxEntry
SquareMatrices(n) ==
    { Arr([i \in 1..n |-> Arr([j \in 1..n |-> Rat(f[i][j], 1)])]) :
        f \in [1..n -> [1..n -> 0..MaxEntry]] }

ConstMatrix(n, w) == Arr([i \in 1..n |-> Arr([j \in 1..n |-> Rat(w, 1)])])

\* Probability vectors of length n with entries k/ProbDen.
ProbVectors(n) ==
    { v \in [1..n -> { Rat(k, ProbDen) : k \in 0..ProbDen }] : RSum(v) = One }

\* The dangling_strategy argument of the constructor.
DanglingChoicesAll ==
    {None, UniformDanglingStrategy, TeleportDanglingStrategy(NoneArray)}
        \cup { TeleportDanglingStrategy(v) :
                 v \in UNION { ProbVectors(n) : n \in 1..MaxDim } }

\* An engine built with the constructor's default damping factor, iteration
\* budget and tolerance.
DefaultEngine(dangling_strategy, personalization_strategy) ==
    engine_init(Rat(85, 100), 100, Rat(1, 100000000),
                dangling_strategy, personalization_strategy).e

(***************************************************************************)
(* build_transition_matrix applied to the arguments the caller holds.      *)
(* The engine is single-threaded and synchronous: a call runs to its       *)
(* return (or its raise) in one step.                                      *)
(***************************************************************************)
BuildInit ==
    /\ graph = NewGraph(TRUE)
    /\ last = NoCall
    /\ engine \in { DefaultEngine(ds, None) : ds \in DanglingChoicesAll }
    /\ \E n \in 1..MaxDim :
          args \in [adjacency_matrix : SquareMatrices(n),
                    weights : {NoneArray} \cup { ConstMatrix(n, w) : w \in 0..1 }]
    /\ call = NoEngineCall
    /\ seen = NothingSeen

\* engine.build_transition_matrix(adjacency_matrix, weights)
BuildCall ==
    LET res == build_transition_matrix(engine, args.adjacency_matrix, args.weights)
    IN  /\ engine' = res.e
        /\ call' = [op |-> "build_transition_matrix",
                    raised |-> res.raised, ret |-> res.ret]
        /\ UNCHANGED <<graph, last, args, seen>>

BuildNext == BuildCall

SpecBuild == BuildInit /\ [][BuildNext]_vars

(***************************************************************************)
(* Transition-matrix claims                                                *)
(***************************************************************************)
IsProbVector(v) == /\ \A i \in 1..Len(v) : RLe(Zero, v[i])
                   /\ RSum(v) = One

\* The strategies C1 speaks of, for an n x n matrix: Uniform, Teleport with
\* no vector, Teleport with a probability vector of length n.
C1_StrategyInScope(strategy, n) ==
    \/ strategy.kind = "Uniform"
    \/ /\ strategy.kind = "Teleport"
       /\ \/ strategy.personalization_vector = NoneArray
          \/ /\ Len(strategy.personalization_vector) = n
             /\ IsProbVector(strategy.personalization_vector)

\* C1: for every square non-negative adjacency matrix (n >= 1), the matrix
\* returned by build_transition_matrix under the Uniform strategy, and under
\* the Teleport strategy with a probability vector or with none, has every
\* column summing to 1.
C1_ColumnsSumToOne ==
    (/\ call.op = "build_transition_matrix"
     /\ C1_StrategyInScope(engine.dangling_strategy, Len(args.adjacency_matrix)))
        => /\ call.raised = NoError
           /\ \A j \in 1..NumCols(call.ret) : RSum(Column(call.ret, j)) = One

(***************************************************************************)
(* compute_personalization_vector applied to the arguments the caller      *)
(* holds.                                                                  *)
(***************************************************************************)
\* Every dict with keys among the given ones and values among the given ones.
DictsOver(keys, values) == UNION { [K -> values] : K \in SUBSET keys }

\* Node identifiers a caller may name in a mapping: "Z" is in no node list.
MapKeys == {"A", "B", "Z"}

NodeLists == { <<"A">>, <<"A", "B">> }

SuspValues == { Rat(k, SuspDen) : k \in 0..SuspDen }

BaseValues == { Rat(w, 1) : w \in 0..MaxBaseWeight }

\* The personalization_strategy argument of the constructor; a suspicion
\* weight below 1 is floored to 1 by the strategy's constructor.
PersonalizationChoices ==
    {None, SuspicionBasedPersonalization(Rat(1, 2)), TransactionVolumePersonalization}

PersonalizationInit ==
    /\ graph = NewGraph(TRUE)
    /\ last = NoCall
    /\ engine \in { DefaultEngine(None, ps) : ps \in PersonalizationChoices }
    /\ args \in [node_ids : NodeLists,
                 suspicious_nodes : {None} \cup DictsOver(MapKeys, SuspValues),
                 base_weights : {None} \cup DictsOver(MapKeys, BaseValues)]
    /\ call = NoEngineCall
    /\ seen = NothingSeen

\* engine.compute_personalization_vector(node_ids, suspicious_nodes, base_weights)
PersonalizationCall ==
    LET res == compute_personalization_vector(engine, args.node_ids,
                                              args.suspicious_nodes,
                                              args.base_weights)
    IN  /\ engine' = res.e
        /\ call' = [op |-> "compute_personalization_vector",
                    raised |-> NoError, ret |-> res.ret]
        /\ UNCHANGED <<graph, last, args, seen>>

PersonalizationNext == PersonalizationCall

SpecPersonalization == PersonalizationInit /\ [][PersonalizationNext]_vars

(***************************************************************************)
(* Personalization claims                                                  *)
(***************************************************************************)
\* C3: for both personalization strategies, for every node list with n >= 1,
\* every suspicion mapping with values in [0,1] (absent, empty, or naming
\* unknown nodes) and every base-weight mapping with non-negative values
\* (absent, empty, partial, or all zero), compute_personalization_vector
\* returns a length-n vector whose entries are non-negative and sum to 1.
C3_PersonalizationIsDistribution ==
    call.op = "compute_personalization_vector"
        => /\ Len(call.ret) = Len(args.node_ids)
           /\ IsProbVector(call.ret)

(***************************************************************************)
(* The engine's life: construction, then sparse and dense computations on  *)
(* the graph and the mappings the caller holds.                            *)
(***************************************************************************)
\* 0/1 adjacency matrices of dimension n
BinaryMatrices(n) ==
    { Arr([i \in 1..n |-> Arr([j \in 1..n |-> Rat(f[i][j], 1)])]) :
        f \in [1..n -> [1..n -> 0..1]] }

DampingChoices == { Rat(k, DampingDen) : k \in -1..(DampingDen + 1) }

\* tolerance: a strict one and a loose one
ToleranceChoices == { Rat(1, 1000), Rat(1, 2) }

NodeSet(node_ids) == { node_ids[i] : i \in 1..Len(node_ids) }

ComputeInit ==
    /\ graph = NewGraph(TRUE)
    /\ last = NoCall
    /\ engine = NoEngine
    /\ \E node_ids \in NodeLists :
          args \in [node_ids : {node_ids},
                    sparse_adjacency : BinaryMatrices(Len(node_ids)),
                    weights : {NoneArray}
                                  \cup { ConstMatrix(Len(node_ids), w) : w \in 2..MaxEntry },
                    suspicious_nodes : {None} \cup DictsOver({"A"}, SuspValues),
                    base_weights : {None} \cup [NodeSet(node_ids) -> BaseValues]]
    /\ call = NoEngineCall
    /\ seen = NothingSeen

\* PowerIterationEngine(damping_factor, max_iterations, tolerance,
\*                      dangling_strategy, personalization_strategy)
ConstructCall ==
    /\ engine = NoEngine
    /\ \E d \in DampingChoices, mi \in 0..MaxIterations, tol \in ToleranceChoices,
          ds \in {None, TeleportDanglingStrategy(NoneArray)},
          ps \in {None, TransactionVolumePersonalization} :
          LET res == engine_init(d, mi, tol, ds, ps)
          IN  /\ engine' = res.e
              /\ call' = [op |-> "construct", raised |-> res.raised,
                          ret |-> << >>, broke |-> FALSE, trace |-> << >>,
                          damping_factor |-> d]
    /\ UNCHANGED <<graph, last, args, seen>>

\* The engine call op has returned (or raised) with outcome res.
Returned(op, res) ==
    /\ engine' = res.e
    /\ call' = [op |-> op, raised |-> res.raised, ret |-> res.ret,
                broke |-> res.broke, trace |-> res.trace,
                damping_factor |-> engine.damping_factor]

\* engine.compute_sparse_page_rank(node_ids, sparse_adjacency, weights,
\*                                 suspicious_nodes, base_weights)
SparseCall ==
    /\ engine # NoEngine
    /\ Returned("compute_sparse_page_rank",
                compute_sparse_page_rank(engine, args.node_ids,
                                         args.sparse_adjacency, args.weights,
                                         args.suspicious_nodes, args.base_weights))
    /\ UNCHANGED <<graph, last, args, seen>>

\* engine.compute_page_rank(graph, suspicious_nodes), the dense computation
DenseCall ==
    /\ engine # NoEngine
    /\ Returned("compute_page_rank",
                compute_page_rank(engine,
                                  GraphView(args.node_ids, args.sparse_adjacency),
                                  args.suspicious_nodes))
    /\ UNCHANGED <<graph, last, args, seen>>

ComputeNext == ConstructCall \/ SparseCall \/ DenseCall

SpecCompute == ComputeInit /\ [][ComputeNext]_vars

\* The same life with the caller holding a graph of the single node A, with
\* or without its self-loop, and no mappings.
ConstructInit ==
    /\ graph = NewGraph(TRUE)
    /\ last = NoCall
    /\ engine = NoEngine
    /\ args \in [node_ids : {<<"A">>},
                 sparse_adjacency : BinaryMatrices(1),
                 weights : {NoneArray},
                 suspicious_nodes : {None},
                 base_weights : {None}]
    /\ call = NoEngineCall
    /\ seen = NothingSeen

SpecConstruct == ConstructInit /\ [][ComputeNext]_vars

(***************************************************************************)
(* Computation claims                                                      *)
(***************************************************************************)
ValidDamping(d) == RLt(Zero, d) /\ RLt(d, One)

\* C2: for every graph with non-negative weights (dangling nodes and the
\* single isolated node included), every suspicion mapping with values in
\* [0,1] and every non-negative base-weight mapping, the rank vector of
\* compute_sparse_page_rank is non-negative and sums to 1 after every
\* iteration, so are the returned scores, and for n = 1 the score is 1.
C2_SparseRankIsDistribution ==
    (call.op = "compute_sparse_page_rank" /\ call.raised = NoError)
        => /\ \A k \in 1..Len(call.trace) : IsProbVector(call.trace[k])
           /\ IsProbVector(engine.page_rank)
           /\ call.ret = ScoreDict(args.node_ids, engine.page_rank)
           /\ Len(args.node_ids) = 1 => call.ret[args.node_ids[1]] = One

\* C4: in the dense and in the sparse computation, when the loop makes
\* max_iterations passes without the L1 difference dropping below the
\* tolerance, the call raises nothing, returns one score per node id, and
\* the engine records converged = false, iterations_performed = max_iterations.
C4_ExhaustionRecorded ==
    (/\ call.op \in {"compute_sparse_page_rank", "compute_page_rank"}
     /\ call.raised = NoError
     /\ ~call.broke)
        => /\ DOMAIN call.ret = NodeSet(args.node_ids)
           /\ engine.converged = FALSE
           /\ engine.iterations_performed = engine.max_iterations

\* What a constructor call leaves: an engine holding the supplied damping
\* factor when it lies strictly between 0 and 1, a ValueError and no engine
\* otherwise; every engine there is holds a factor strictly between 0 and 1.
C5_ConstructorOutcome ==
    /\ call.op = "construct"
          => IF ValidDamping(call.damping_factor)
             THEN /\ call.raised = NoError
                  /\ engine # NoEngine
                  /\ engine.damping_factor = call.damping_factor
             ELSE /\ call.raised = "ValueError"
                  /\ engine = NoEngine
    /\ engine # NoEngine => ValidDamping(engine.damping_factor)

\* While there is no engine, the only step is another constructor call.
C5_NoStepWithoutEngine == engine = NoEngine => call'.op = "construct"

\* C5: constructing an engine with a damping factor not strictly between 0
\* and 1 (0, 1 and negative values included) raises and yields no engine, so
\* no build or iteration step can follow; for every factor strictly between
\* 0 and 1 construction succeeds and stores the supplied factor unchanged.
C5_DampingValidated == [](C5_ConstructorOutcome) /\ [][C5_NoStepWithoutEngine]_vars

\* A constructor call with damping factor exactly 1 has been rejected.
C5_Witness ==
    /\ call.op = "construct"
    /\ call.damping_factor = One
    /\ call.raised = "ValueError"
    /\ engine = NoEngine

(***************************************************************************)
(* get_top_fraud_candidates.  A dict of scores is the sequence of its      *)
(* (node_id, score) items in insertion order, the node ids distinct.       *)
(***************************************************************************)
\* Insert x into a sequence sorted by ascending key, after the elements
\* whose key is not greater (the sort is stable).
insert_forward(sorted, x, key) ==
    LET pos == Cardinality({ i \in 1..Len(sorted) : RLe(sorted[i][key], x[key]) })
    IN  SubSeq(sorted, 1, pos) \o <<x>> \o SubSeq(sorted, pos + 1, Len(sorted))

RECURSIVE sort_forward_to(_, _, _)
sort_forward_to(candidates, k, key) ==
    IF k = 0 THEN << >>
    ELSE insert_forward(sort_forward_to(candidates, k - 1, key), candidates[k], key)

\* candidates.sort(key=...) without reverse=True
sort_forward(candidates, key) == sort_forward_to(candidates, Len(candidates), key)

\* Insert x into a sequence sorted by descending key, after the elements
\* whose key is not smaller: elements with equal keys keep their order.
insert_reverse(sorted, x, key) ==
    LET pos == Cardinality({ i \in 1..Len(sorted) : RLe(x[key], sorted[i][key]) })
    IN  SubSeq(sorted, 1, pos) \o <<x>> \o SubSeq(sorted, pos + 1, Len(sorted))

RECURSIVE sort_reverse_to(_, _, _)
sort_reverse_to(candidates, k, key) ==
    IF k = 0 THEN << >>
    ELSE insert_reverse(sort_reverse_to(candidates, k - 1, key), candidates[k], key)

\* candidates.sort(key=lambda x: x[key], reverse=True), a stable sort
sort_reverse(candidates, key) == sort_reverse_to(candidates, Len(candidates), key)

\* candidates[:top_k]
SliceTo(candidates, top_k) ==
    IF top_k >= 0
    THEN SubSeq(candidates, 1, IF top_k < Len(candidates) THEN top_k ELSE Len(candidates))
    ELSE SubSeq(candidates, 1, Len(candidates) + top_k)

\* PowerIterationEngine.get_top_fraud_candidates: candidates are the tuples
\* (node_id, pr_score, suspicion, combined_score); with a non-empty suspicion
\* mapping they are sorted by the combined score (position 4), otherwise by
\* the PageRank score (position 2); the first top_k are returned as
\* (node_id, pr_score, suspicion).
get_top_fraud_candidates(page_rank_scores, top_k, suspicion_scores) ==
    LET n == Len(page_rank_scores)
        candidates ==
            IF Truthy(suspicion_scores)
            THEN sort_reverse(
                     Arr([i \in 1..n |->
                         LET node_id == page_rank_scores[i][1]
                             pr_score == page_rank_scores[i][2]
                             suspicion == IF node_id \in DOMAIN suspicion_scores
                                          THEN suspicion_scores[node_id] ELSE Zero
                         IN  <<node_id, pr_score, suspicion,
                               RMul(pr_score, RAdd(One, suspicion))>>]), 4)
            ELSE sort_reverse(
                     Arr([i \in 1..n |->
                         <<page_rank_scores[i][1], page_rank_scores[i][2], Zero,
                           page_rank_scores[i][2]>>]), 2)
        top == SliceTo(candidates, top_k)
    IN  Arr([i \in 1..Len(top) |-> <<top[i][1], top[i][2], top[i][3]>>])

\* Node ids of the score mappings offered.
ScoreNodes == {"A", "B", "C"}

ScoreValues == { Rat(k, ProbDen) : k \in 0..ProbDen }

\* The score dicts over the given nodes: every insertion order of every
\* subset, with every choice of scores.
RECURSIVE ScoreDicts(_)
ScoreDicts(nodes) ==
    { << >> } \cup
    UNION { { Append(d, <<x, v>>) : d \in ScoreDicts(nodes \ {x}),
                                    v \in ScoreValues } : x \in nodes }

TopKInit ==
    /\ graph = NewGraph(TRUE)
    /\ last = NoCall
    /\ engine = DefaultEngine(None, None)
    /\ args \in [page_rank_scores : ScoreDicts(ScoreNodes),
                 top_k : -1..MaxTopK,
                 suspicion_scores : {None} \cup DictsOver({"A", "Z"}, SuspValues)]
    /\ call = NoEngineCall
    /\ seen = NothingSeen

\* engine.get_top_fraud_candidates(page_rank_scores, top_k, suspicion_scores)
TopKCall ==
    /\ call' = [op |-> "get_top_fraud_candidates",
                ret |-> get_top_fraud_candidates(args.page_rank_scores, args.top_k,
                                                 args.suspicion_scores)]
    /\ UNCHANGED <<graph, last, engine, args, seen>>

TopKNext == TopKCall

SpecTopK == TopKInit /\ [][TopKNext]_vars

(***************************************************************************)
(* Top-candidate claims                                                    *)
(***************************************************************************)
\* The score and the suspicion of a node as the claim reads them off the
\* arguments: suspicion 0 for a node without an entry.
ScoreOf(node_id) ==
    LET i == CHOOSE k \in 1..Len(args.page_rank_scores) :
                 args.page_rank_scores[k][1] = node_id
    IN  args.page_rank_scores[i][2]

SuspicionOf(node_id) ==
    IF args.suspicion_scores # None /\ node_id \in DOMAIN args.suspicion_scores
    THEN args.suspicion_scores[node_id] ELSE Zero

CombinedOf(node_id) == RMul(ScoreOf(node_id), RAdd(One, SuspicionOf(node_id)))

ScoredNodes == { args.page_rank_scores[k][1] : k \in 1..Len(args.page_rank_scores) }

\* C7: for every score mapping, every suspicion mapping (present, empty or
\* absent) and every top_k >= 0, get_top_fraud_candidates returns exactly
\* min(top_k, number of nodes) triples (node, score, suspicion) of distinct
\* nodes, the combined score pagerank * (1 + suspicion) non-increasing along
\* the list, and every node left out has a combined score no greater than
\* that of every node returned.
C7_TopCandidatesSorted ==
    (call.op = "get_top_fraud_candidates" /\ args.top_k >= 0)
        => LET ret == call.ret
               n == Len(args.page_rank_scores)
               returned == { ret[i][1] : i \in 1..Len(ret) }
           IN  /\ Len(ret) = IF args.top_k < n THEN args.top_k ELSE n
               /\ Len(ret) <= args.top_k
               /\ Cardinality(returned) = Len(ret)
               /\ \A i \in 1..Len(ret) :
                     /\ ret[i][1] \in ScoredNodes
                     /\ ret[i][2] = ScoreOf(ret[i][1])
                     /\ ret[i][3] = SuspicionOf(ret[i][1])
               /\ \A i, j \in 1..Len(ret) :
                     i < j => RLe(CombinedOf(ret[j][1]), CombinedOf(ret[i][1]))
               /\ \A x \in ScoredNodes \ returned, y \in returned :
                     RLe(CombinedOf(x), CombinedOf(y))

\* Two of three nodes were returned, the first one lifted to the top by its
\* suspicion although its PageRank score is smaller than the second's.
C7_Witness ==
    /\ call.op = "get_top_fraud_candidates"
    /\ args.top_k = 2
    /\ Len(args.page_rank_scores) = 3
    /\ Len(call.ret) = 2
    /\ call.ret[1][3] = One
    /\ RLt(call.ret[1][2], call.ret[2][2])

(***************************************************************************)
(* Repeated computations on one engine instance: the caller holds a probe  *)
(* computation and another one, runs them in any order, sparse or dense,   *)
(* and keeps the outcome of the first run of the probe.                    *)
(***************************************************************************)
ProbeInputs ==
    UNION { [node_ids : {node_ids},
             sparse_adjacency : BinaryMatrices(Len(node_ids)),
             weights : {NoneArray},
             suspicious_nodes : {None, [x \in {"A"} |-> One]},
             base_weights : {None}] : node_ids \in NodeLists }

\* The single isolated node, and the complete graph on two nodes with node
\* A under suspicion.
OtherInputs ==
    { [node_ids |-> <<"A">>, sparse_adjacency |-> ConstMatrix(1, 0),
       weights |-> NoneArray, suspicious_nodes |-> None, base_weights |-> None],
      [node_ids |-> <<"A", "B">>, sparse_adjacency |-> ConstMatrix(2, 1),
       weights |-> NoneArray, suspicious_nodes |-> [x \in {"A"} |-> One],
       base_weights |-> None] }

RepeatInit ==
    /\ graph = NewGraph(TRUE)
    /\ last = NoCall
    /\ engine \in { engine_init(d, mi, tol, None, None).e :
                      d \in { x \in DampingChoices : RLt(Zero, x) /\ RLt(x, One) },
                      mi \in 1..MaxIterations, tol \in ToleranceChoices }
    /\ args \in [probe : ProbeInputs, other : OtherInputs]
    /\ call = NoEngineCall
    /\ seen = [log |-> << >>, sparse |-> None, dense |-> None]

\* The computation op on the probe or the other inputs has returned (or
\* raised) with outcome res: the caller logs the call and keeps the outcome
\* of the first run of the probe.
RepeatReturned(which, op, res) ==
    /\ engine' = res.e
    /\ call' = [op |-> op, input |-> which, raised |-> res.raised, ret |-> res.ret]
    /\ seen' = IF op = "compute_sparse_page_rank"
               THEN [seen EXCEPT
                       !.log = Append(@, <<which, "sparse">>),
                       !.sparse = IF which = "probe" /\ @ = None
                                  THEN [raised |-> res.raised, ret |-> res.ret]
                                  ELSE @]
               ELSE [seen EXCEPT
                       !.log = Append(@, <<which, "dense">>),
                       !.dense = IF which = "probe" /\ @ = None
                                 THEN [raised |-> res.raised, ret |-> res.ret]
                                 ELSE @]

\* The inputs the caller names: its probe or its other computation.
InputOf(which) == IF which = "probe" THEN args.probe ELSE args.other

\* engine.compute_sparse_page_rank(...) on the probe or on the other inputs
RepeatSparse(which) ==
    /\ Len(seen.log) < MaxCalls
    /\ RepeatReturned(which, "compute_sparse_page_rank",
                      compute_sparse_page_rank(engine, InputOf(which).node_ids,
                                               InputOf(which).sparse_adjacency,
                                               InputOf(which).weights,
                                               InputOf(which).suspicious_nodes,
                                               InputOf(which).base_weights))
    /\ UNCHANGED <<graph, last, args>>

\* engine.compute_page_rank(graph, suspicious_nodes) on the probe or on the
\* other inputs
RepeatDense(which) ==
    /\ Len(seen.log) < MaxCalls
    /\ RepeatReturned(which, "compute_page_rank",
                      compute_page_rank(engine,
                                        GraphView(InputOf(which).node_ids,
                                                  InputOf(which).sparse_adjacency),
                                        InputOf(which).suspicious_nodes))
    /\ UNCHANGED <<graph, last, args>>

ProbeSparseCall == RepeatSparse("probe")
OtherSparseCall == RepeatSparse("other")
ProbeDenseCall == RepeatDense("probe")
OtherDenseCall == RepeatDense("other")

RepeatNext == ProbeSparseCall \/ OtherSparseCall \/ ProbeDenseCall \/ OtherDenseCall

SpecRepeat == RepeatInit /\ [][RepeatNext]_vars

(***************************************************************************)
(* Determinism claims                                                      *)
(***************************************************************************)
\* C6: running the same computation again on the same engine instance, with
\* the same graph and inputs, returns the scores its first run returned,
\* whatever other computations the instance ran before or in between.
C6_RepeatGivesSameScores ==
    (call.op # "none" /\ call.input = "probe")
        => LET outcome == [raised |-> call.raised, ret |-> call.ret]
           IN  IF call.op = "compute_sparse_page_rank"
               THEN seen.sparse = outcome
               ELSE seen.dense = outcome

\* The probe ran sparse, then the other computation on another node list,
\* then the probe again, and returned scores.
C6_Witness ==
    /\ call.op = "compute_sparse_page_rank"
    /\ call.input = "probe"
    /\ call.raised = NoError
    /\ seen.log = << <<"probe", "sparse">>, <<"other", "sparse">>, <<"probe", "sparse">> >>
    /\ args.probe.node_ids # args.other.node_ids
    /\ engine.page_rank # UniformVector(Len(args.probe.node_ids))

(***************************************************************************)
(* The Graph Store's matrix views handed to the engine.                    *)
(***************************************************************************)
\* SparseGraph.get_nodes
get_nodes(g) == g.order

\* sum(neighbors.values()) over the keys still to add
RECURSIVE SumValues(_, _)
SumValues(neighbors, keys) ==
    IF keys = {} THEN 0
    ELSE LET k == CHOOSE x \in keys : TRUE
         IN  neighbors[k] + SumValues(neighbors, keys \ {k})

\* SparseGraph.get_out_degree
get_out_degree(g, node_id) ==
    IF node_id \in GraphNodes(g)
    THEN Rat(SumValues(g.adjacency_list[node_id], DOMAIN g.adjacency_list[node_id]), 1)
    ELSE Zero

\* SparseGraph.get_adjacency_matrix and get_sparse_adjacency_matrix: row i
\* is the i-th node as a source, column j the j-th node as a target.
get_adjacency_matrix(g) ==
    LET node_ids == get_nodes(g)
        n == Len(node_ids)
    IN  [matrix |-> Arr([i \in 1..n |-> Arr([j \in 1..n |->
                        IF node_ids[j] \in DOMAIN g.adjacency_list[node_ids[i]]
                        THEN Rat(g.adjacency_list[node_ids[i]][node_ids[j]], 1)
                        ELSE Zero])]),
         node_ids |-> node_ids]

\* SparseGraph.get_dangling_nodes: the mask by node index.
get_dangling_nodes(g) ==
    Arr([i \in 1..Len(g.order) |-> g.adjacency_list[g.idx_to_node[i - 1]] = << >>])

(***************************************************************************)
(* A directed graph is built and its matrix view is handed to the engine.  *)
(***************************************************************************)
FeedEngines ==
    { engine_init(d, MaxIterations, Rat(1, 1000), ds, None).e :
        d \in {Rat(1, 2)}, ds \in {UniformDanglingStrategy, TeleportDanglingStrategy(NoneArray)} }

FeedInit ==
    /\ graph \in { g \in BuiltGraphs : g.directed /\ GraphNodes(g) # {} }
    /\ last = NoCall
    /\ engine \in FeedEngines
    /\ args = NoArgs
    /\ call = NoEngineCall
    /\ seen = NothingSeen

\* What the engine derived from the matrix it was handed, and what the call
\* returned.
Fed(op, view, res) ==
    /\ engine' = res.e
    /\ call' = [op |-> op, raised |-> res.raised, ret |-> res.ret,
                node_ids |-> view.node_ids,
                out_degree |-> OutDegree(view.matrix),
                dangling_mask |-> DanglingMask(OutDegree(view.matrix)),
                normalized |-> NormalizeColumns(view.matrix, OutDegree(view.matrix))]
    /\ UNCHANGED <<graph, last, args, seen>>

\* engine.build_transition_matrix(*graph.get_adjacency_matrix()[:1])
FeedDenseCall ==
    /\ call = NoEngineCall
    /\ Fed("build_transition_matrix", get_adjacency_matrix(graph),
           build_transition_matrix(engine, get_adjacency_matrix(graph).matrix, NoneArray))

\* matrix, node_ids = graph.get_sparse_adjacency_matrix();
\* engine.compute_sparse_page_rank(node_ids, matrix)
FeedSparseCall ==
    /\ call = NoEngineCall
    /\ Fed("compute_sparse_page_rank", get_adjacency_matrix(graph),
           compute_sparse_page_rank(engine, get_nodes(graph),
                                    get_adjacency_matrix(graph).matrix,
                                    NoneArray, None, None))

FeedNext == FeedDenseCall \/ FeedSparseCall

SpecFeed == FeedInit /\ [][FeedNext]_vars

\* C14: when the engine is handed the adjacency matrix and node list of a
\* directed graph, the degree it normalizes node i by is get_out_degree of
\* that node, the nodes it treats as dangling are those get_dangling_nodes
\* flags, and the normalized matrix moves rank from the source of an edge to
\* its target: entry [t][s] is positive exactly when s has an edge of
\* positive weight to t.  Stated for the graphs whose stored weights are all
\* positive (an entry of weight 0 is an edge to get_dangling_nodes and none
\* to a sum of weights).
C14_EngineReadsOutDegree ==
    (/\ call.op # "none"
     /\ \A e \in StoredEntries(graph) : graph.adjacency_list[e[1]][e[2]] > 0) =>
        LET n == Len(call.node_ids)
        IN  /\ \A i \in 1..n :
                   call.out_degree[i] = get_out_degree(graph, call.node_ids[i])
            /\ call.dangling_mask = get_dangling_nodes(graph)
            /\ \A s \in 1..n, t \in 1..n :
                   RLt(Zero, call.normalized[t][s])
                       <=> /\ HasEdge(graph, call.node_ids[s], call.node_ids[t])
                           /\ graph.adjacency_list[call.node_ids[s]][call.node_ids[t]] > 0

(***************************************************************************)
(* Personalization with no mass                                            *)
(***************************************************************************)
\* The total the strategy computes before it normalizes is zero.  Weights
\* and scores are not negative and a boost factor is at least 1, so the
\* suspicion-based total is zero exactly when every node is given the base
\* weight 0, and the volume-based total exactly when base weights are given
\* and no node has a positive one.
ZeroTotalMass ==
    LET nodes == { args.node_ids[i] : i \in 1..Len(args.node_ids) }
        bw == args.base_weights
    IN  /\ Truthy(bw)
        /\ IF engine.personalization_strategy.kind = "SuspicionBased"
           THEN \A x \in nodes : x \in DOMAIN bw /\ bw[x] = Zero
           ELSE \A x \in nodes \cap DOMAIN bw : bw[x] = Zero

\* C16: whenever the total mass a personalization strategy computes is zero
\* (every node has the base weight 0, or no base weight names a node of the
\* graph), the strategy returns the uniform vector 1/n and raises no error.
C16_ZeroMassGivesUniform ==
    (call.op = "compute_personalization_vector" /\ ZeroTotalMass)
        => /\ call.raised = NoError
           /\ call.ret = UniformVector(Len(args.node_ids))

(***************************************************************************)
(* The dangling treatment of the sparse computation                        *)
(***************************************************************************)
\* The loop's view of the graph when the rank of a dangling node is spread
\* equally over all nodes.
EqualSpread(weighted_adj, p) ==
    [weighted_adj |-> weighted_adj,
     out_degree |-> OutDegree(weighted_adj),
     dangling_mask |-> DanglingMask(OutDegree(weighted_adj)),
     dangling_teleport |-> UniformVector(Len(p)),
     p |-> p]

\* The rank vector an iteration starts from: 1/n, then the previous result.
StartOf(trace, k) == IF k = 1 THEN UniformVector(Len(trace[1])) ELSE trace[k - 1]

\* C15: with the Uniform dangling strategy every iteration of
\* compute_sparse_page_rank spreads the rank of the dangling nodes equally
\* over all n nodes, whatever distribution the personalization vector is.
C15_SparseSpreadsEqually ==
    (/\ call.op = "compute_sparse_page_rank"
     /\ call.raised = NoError
     /\ engine.dangling_strategy.kind = "Uniform"
     /\ IsProbVector(engine.personalization_vector))
        => \A k \in 1..Len(call.trace) :
               call.trace[k] =
                   sparse_step(engine,
                               EqualSpread(WeightedAdjacency(args.sparse_adjacency,
                                                             args.weights),
                                           engine.personalization_vector),
                               StartOf(call.trace, k))

(***************************************************************************)
(* The scenario of the 4-node cycle A -> B -> C -> D -> A with unit        *)
(* weights: the graph is built by add_edge, its sparse matrix is handed to *)
(* an engine with damping factor 0.85 and the default strategies.          *)
(***************************************************************************)
CycleGraph ==
    add_edge(add_edge(add_edge(add_edge(NewGraph(TRUE),
        "A", "B", 1), "B", "C", 1), "C", "D", 1), "D", "A", 1)

\* PowerIterationEngine(damping_factor=0.85, max_iterations=mi, tolerance=tol)
\* with the default tolerance and with a loose one.
CycleEngines ==
    { engine_init(Rat(85, 100), mi, tol, None, None).e :
        mi \in 1..MaxCycleIterations, tol \in {Rat(1, 100000000), Rat(1, 10)} }

\* Distributions over the four nodes with entries k/CycleGridDen.
CycleGrid ==
    { Arr(v) : v \in { f \in [1..4 -> { Rat(k, CycleGridDen) : k \in 0..CycleGridDen }] :
                          RSum(Arr(f)) = One } }

CycleInit ==
    /\ graph = CycleGraph
    /\ last = NoCall
    /\ engine \in CycleEngines
    /\ args \in [suspicious_nodes : {None, [x \in {"C"} |-> One]},
                 r_prev : CycleGrid]
    /\ call = NoEngineCall
    /\ seen = NothingSeen

\* matrix, node_ids = graph.get_sparse_adjacency_matrix();
\* engine.compute_sparse_page_rank(node_ids, matrix, suspicious_nodes=...)
CycleRunCall ==
    /\ call = NoEngineCall
    /\ Returned("compute_sparse_page_rank",
                compute_sparse_page_rank(engine, get_nodes(graph),
                                         get_adjacency_matrix(graph).matrix,
                                         NoneArray, args.suspicious_nodes, None))
    /\ UNCHANGED <<graph, last, args, seen>>

\* The loop's view of the graph, as compute_sparse_page_rank sets it up
\* before the loop.
LoopContext(weighted_adj, p) ==
    [weighted_adj |-> weighted_adj,
     out_degree |-> OutDegree(weighted_adj),
     dangling_mask |-> DanglingMask(OutDegree(weighted_adj)),
     dangling_teleport |->
         IF \E j \in 1..Len(p) : DanglingMask(OutDegree(weighted_adj))[j]
         THEN p ELSE Arr([i \in 1..Len(p) |-> Zero]),
     p |-> p]

\* One pass of the loop of compute_sparse_page_rank from the rank vector
\* r_prev, which is some distribution over the nodes.
CyclePass ==
    /\ call = NoEngineCall
    /\ call' = [op |-> "pass", raised |-> NoError,
                ret |-> ScoreDict(get_nodes(graph),
                           sparse_step(engine,
                               LoopContext(get_adjacency_matrix(graph).matrix,
                                   compute_personalization_vector(engine,
                                       get_nodes(graph), args.suspicious_nodes,
                                       None).ret),
                               args.r_prev)),
                broke |-> FALSE, trace |-> << >>,
                damping_factor |-> engine.damping_factor]
    /\ UNCHANGED <<graph, last, engine, args, seen>>

CycleNext == CycleRunCall \/ CyclePass

SpecCycle == CycleInit /\ [][CycleNext]_vars

\* C17: on the 4-node cycle with unit weights, damping factor 0.85, the
\* default strategies and suspicion weight 5: with no suspicion scores the
\* computation returns 0.25 for every node and records converged = true
\* after its first iteration; with C alone suspicious at 1.0 the returned
\* score of C is greater than the score of each of A, B and D, and so is the
\* score of C after a pass of the loop from any distribution.
C17_CycleScenario ==
    /\ (call.op = "compute_sparse_page_rank" /\ args.suspicious_nodes = None)
           => /\ call.raised = NoError
              /\ call.ret = [x \in {"A", "B", "C", "D"} |-> Rat(1, 4)]
              /\ engine.converged
              /\ engine.iterations_performed = 1
    /\ (call.op \in {"compute_sparse_page_rank", "pass"} /\ args.suspicious_nodes # None)
           => /\ call.raised = NoError
              /\ \A x \in {"A", "B", "D"} : RLt(call.ret[x], call.ret["C"])

\* A run with C suspicious that stopped below the tolerance after more than
\* one iteration has returned.
C17_Witness ==
    /\ call.op = "compute_sparse_page_rank"
    /\ args.suspicious_nodes # None
    /\ call.broke
    /\ engine.iterations_performed > 1
    /\ RLt(call.ret["A"], call.ret["C"])

(***************************************************************************)
(* The residuals of the dense computation on graphs of three nodes.        *)
(***************************************************************************)
ResidualInit ==
    /\ graph = NewGraph(TRUE)
    /\ last = NoCall
    /\ engine \in { engine_init(d, MaxResidualIterations, Rat(1, 100000000), None, None).e :
                       d \in {Rat(1, 4), Rat(3, 4)} }
    /\ args \in [node_ids : {<<"A", "B", "C">>},
                 sparse_adjacency : BinaryMatrices(3),
                 weights : {NoneArray},
                 suspicious_nodes : {None, [x \in {"A"} |-> One],
                                     [x \in {"A", "B"} |->
                                         IF x = "A" THEN Rat(1, 2) ELSE One]},
                 base_weights : {None}]
    /\ call = NoEngineCall
    /\ seen = NothingSeen

ResidualNext == DenseCall

SpecResidual == ResidualInit /\ [][ResidualNext]_vars

\* |r_k - r_{k-1}|_1 of the last dense run, r_0 being the start vector p.
Residual(trace, p, k) == L1Diff(trace[k], IF k = 1 THEN p ELSE trace[k - 1])

\* The start vector of the last dense run.
DenseStart ==
    dense_personalization(GraphView(args.node_ids, args.sparse_adjacency),
                          Len(args.node_ids), args.suspicious_nodes)

\* C18: in the dense loop the L1 residual of an iteration is no greater than
\* the residual of the iteration before it, for every graph, every
\* personalization vector and every damping factor in (0,1).
C18_ResidualNonIncreasing ==
    (call.op = "compute_page_rank")
        => \A k \in 2..Len(call.trace) :
               RLe(Residual(call.trace, DenseStart, k),
                   Residual(call.trace, DenseStart, k - 1))

\* A run on a graph with a dangling node and a personalization vector that
\* is not uniform made three iterations, with a positive residual that
\* dropped from the second to the third.
C18_Witness ==
    /\ call.op = "compute_page_rank"
    /\ Len(call.trace) = 3
    /\ DenseStart # UniformVector(3)
    /\ \E j \in 1..3 : RSum(args.sparse_adjacency[j]) = Zero
    /\ RLt(Zero, Residual(call.trace, DenseStart, 3))
    /\ RLt(Residual(call.trace, DenseStart, 3), Residual(call.trace, DenseStart, 2))

(***************************************************************************)
(* get_convergence_info after computations on one engine                   *)
(***************************************************************************)
\* get_description of a strategy: the parts of the text returned.
get_description(strategy) ==
    CASE strategy.kind = "Uniform" ->
             <<"Uniform redistribution of dangling node rank to all nodes">>
      [] strategy.kind = "Teleport" ->
             <<"Redirect dangling nodes according to personalization vector">>
      [] strategy.kind = "SuspicionBased" ->
             <<"Suspicion-biased personalization (weight=", strategy.suspicion_weight, ")">>
      [] strategy.kind = "TransactionVolume" ->
             <<"Transaction volume weighted personalization">>

\* PowerIterationEngine.get_convergence_info
get_convergence_info(e) ==
    [converged |-> e.converged,
     iterations_performed |-> e.iterations_performed,
     damping_factor |-> e.damping_factor,
     tolerance |-> e.tolerance,
     dangling_strategy |-> get_description(e.dangling_strategy),
     personalization_strategy |-> get_description(e.personalization_strategy)]

\* engine.get_convergence_info() after at least one computation
InfoCall ==
    /\ seen.log # << >>
    /\ call.op # "get_convergence_info"
    /\ call' = [op |-> "get_convergence_info", input |-> call.input,
                raised |-> NoError, ret |-> get_convergence_info(engine)]
    /\ UNCHANGED <<graph, last, engine, args, seen>>

InfoNext ==
    \/ ProbeSparseCall \/ OtherSparseCall \/ ProbeDenseCall \/ OtherDenseCall
    \/ InfoCall

SpecInfo == RepeatInit /\ [][InfoNext]_vars

\* The run the caller made last, made again: the outcome of a computation
\* depends on the engine's configuration and the arguments only.
RunOf(entry) ==
    IF entry[2] = "sparse"
    THEN compute_sparse_page_rank(engine, InputOf(entry[1]).node_ids,
                                  InputOf(entry[1]).sparse_adjacency,
                                  InputOf(entry[1]).weights,
                                  InputOf(entry[1]).suspicious_nodes,
                                  InputOf(entry[1]).base_weights)
    ELSE compute_page_rank(engine,
                           GraphView(InputOf(entry[1]).node_ids,
                                     InputOf(entry[1]).sparse_adjacency),
                           InputOf(entry[1]).suspicious_nodes)

\* The info reports whether that run stopped below the tolerance and the
\* number of iterations it made.
InfoDescribes(info, run) ==
    /\ info.converged = run.broke
    /\ info.iterations_performed = Len(run.trace)

\* C19: after any sequence of computations on one engine,
\* get_convergence_info describes the most recent computation: converged
\* tells whether that run stopped below the tolerance (false when it
\* exhausted max_iterations) and iterations_performed is that run's count,
\* also when an earlier run on the engine had converged.
C19_InfoOfLastRun ==
    (call.op = "get_convergence_info")
        => InfoDescribes(call.ret, RunOf(seen.log[Len(seen.log)]))

(***************************************************************************)
(* Where the iteration stops: computations on a configured engine.         *)
(***************************************************************************)
StopInit ==
    /\ graph = NewGraph(TRUE)
    /\ last = NoCall
    /\ engine \in { engine_init(d, mi, tol, None, None).e :
                      d \in { x \in DampingChoices : ValidDamping(x) },
                      mi \in 0..MaxIterations, tol \in ToleranceChoices }
    /\ args \in ProbeInputs
    /\ call = NoEngineCall
    /\ seen = NothingSeen

StopNext == SparseCall \/ DenseCall

SpecStop == StopInit /\ [][StopNext]_vars

\* The rank vector the last computation started from: 1/n in the sparse
\* computation, the personalization vector in the dense one.
RunStart ==
    IF call.op = "compute_sparse_page_rank"
    THEN UniformVector(Len(args.node_ids))
    ELSE DenseStart

\* The run made at most max_iterations iterations, the only iteration with
\* an L1 difference below the tolerance is the last one of a run that
\* stopped early, and a run that did not stop early used its whole budget.
StopsAtFirst(e, trace, start, broke) ==
    /\ Len(trace) <= e.max_iterations
    /\ \A k \in 1..Len(trace) :
           RLt(Residual(trace, start, k), e.tolerance) <=> (broke /\ k = Len(trace))
    /\ ~broke => Len(trace) = e.max_iterations

C20_Stopped ==
    (call.op \in {"compute_sparse_page_rank", "compute_page_rank"} /\ call.raised = NoError)
        => /\ StopsAtFirst(engine, call.trace, RunStart, call.broke)
           /\ call.broke
                 => /\ engine.converged
                    /\ engine.iterations_performed = Len(call.trace)
                    /\ call.ret = ScoreDict(args.node_ids, call.trace[Len(call.trace)])

\* A run in which no iteration met the tolerance does not set converged.
C20_NoFalseRecord ==
    (call'.op \in {"compute_sparse_page_rank", "compute_page_rank"} /\ ~call'.broke)
        => (engine'.converged => engine.converged)

\* C20: the loop stops at the first iteration t, counted from 1, whose L1
\* difference to the previous rank vector is strictly below the tolerance;
\* the engine then records converged = true and iterations_performed = t,
\* makes no further iteration and returns the vector of iteration t; a run
\* in which no iteration met the tolerance never records converged = true.
C20_StopsAtFirstBelowTolerance == [](C20_Stopped) /\ [][C20_NoFalseRecord]_vars

\* A run stopped at its second iteration: the first difference was not
\* below the tolerance, the second was.
C20_Witness ==
    /\ call.op \in {"compute_sparse_page_rank", "compute_page_rank"}
    /\ call.broke
    /\ Len(call.trace) = 2
    /\ engine.iterations_performed = 2
    /\ ~RLt(Residual(call.trace, RunStart, 1), engine.tolerance)

(***************************************************************************)
(* The computations pass by pass: call holds the frame of the running      *)
(* computation: pc, the passes made, the rank vector r, the start vector   *)
(* and ctx, the locals the loop reads.  Nothing makes a caller call; the   *)
(* interpreter runs a call that was made until it returns or raises.       *)
(***************************************************************************)
LoopInit ==
    /\ graph = NewGraph(TRUE)
    /\ last = NoCall
    /\ engine \in { engine_init(d, mi, tol, ds, None).e :
                      d \in { x \in DampingChoices : ValidDamping(x) },
                      mi \in 0..MaxIterations, tol \in ToleranceChoices,
                      ds \in {None, TeleportDanglingStrategy(NoneArray)} }
    /\ args \in ProbeInputs
    /\ call = NoEngineCall
    /\ seen = NothingSeen

\* No computation is running.
Idle == IF call.op = "none" THEN TRUE ELSE call.pc \in {"returned", "raised"}

\* The frame of a computation at the position pc.
Frame(op, pc, ctx, start, raised) ==
    [op |-> op, pc |-> pc, iteration |-> 0, r |-> start, start |-> start,
     ctx |-> ctx, raised |-> raised, ret |-> << >>]

\* A slip that lets the range run one item further.
range_has_next_inclusive(e, iteration) == iteration <= e.max_iterations

\* for iteration in range(self.max_iterations): the range has a next item
\* after "iteration" passes.
range_has_next(e, iteration) == iteration < e.max_iterations

\* The weighted adjacency of the arguments the caller holds.
ArgsAdjacency == WeightedAdjacency(args.sparse_adjacency, args.weights)

\* compute_sparse_page_rank up to the loop, given the outcome pv of
\* compute_personalization_vector and the outcome of the strategy call on
\* the dangling columns: the call raises there or enters the loop with
\* r = 1/n.
SparseEntered(pv, handled) ==
    /\ engine' = pv.e
    /\ call' = IF handled.raised # NoError
               THEN Frame("compute_sparse_page_rank", "raised", None, << >>,
                          handled.raised)
               ELSE Frame("compute_sparse_page_rank", "loop",
                          LoopContext(ArgsAdjacency, pv.ret),
                          UniformVector(Len(args.node_ids)), NoError)
    /\ UNCHANGED <<graph, last, args, seen>>

\* The strategy call of compute_sparse_page_rank on the dangling columns.
DanglingHandled(e, weighted_adj) ==
    IF IndicesWhere(DanglingMask(OutDegree(weighted_adj)), Len(weighted_adj)) # << >>
    THEN handle_dangling_nodes(e.dangling_strategy,
             DummyMatrix(Len(weighted_adj),
                 IndicesWhere(DanglingMask(OutDegree(weighted_adj)), Len(weighted_adj))),
             Arr([c \in 1..Len(IndicesWhere(DanglingMask(OutDegree(weighted_adj)),
                                            Len(weighted_adj))) |-> TRUE]))
    ELSE [raised |-> NoError, ret |-> NoneArray]

\* engine.compute_sparse_page_rank(...) is called and runs up to its loop.
SparseEnter ==
    /\ Idle
    /\ SparseEntered(compute_personalization_vector(engine, args.node_ids,
                                                    args.suspicious_nodes,
                                                    args.base_weights),
                     DanglingHandled(engine, ArgsAdjacency))

\* One pass of a loop has computed r from the frame's rank vector: the
\* convergence test, the record and the break, or the next item.
Passed(r) ==
    /\ IF RLt(L1Diff(r, call.r), engine.tolerance)
       THEN /\ engine' = [engine EXCEPT !.converged = TRUE,
                                        !.iterations_performed = call.iteration + 1]
            /\ call' = [call EXCEPT !.pc = "broke", !.r = r,
                                    !.iteration = @ + 1]
       ELSE /\ engine' = engine
            /\ call' = [call EXCEPT !.r = r, !.iteration = @ + 1]
    /\ UNCHANGED <<graph, last, args, seen>>

\* One pass of the sparse loop.
SparsePass ==
    /\ call.op = "compute_sparse_page_rank"
    /\ call.pc = "loop"
    /\ range_has_next(engine, call.iteration)
    /\ \E r \in {sparse_step(engine, call.ctx, call.r)} : Passed(r)

\* The else branch of the sparse loop: the range is exhausted.
SparseElse ==
    /\ call.op = "compute_sparse_page_rank"
    /\ call.pc = "loop"
    /\ ~range_has_next(engine, call.iteration)
    /\ engine' = [engine EXCEPT !.converged = FALSE,
                                !.iterations_performed = engine.max_iterations]
    /\ call' = [call EXCEPT !.pc = "exhausted"]
    /\ UNCHANGED <<graph, last, args, seen>>

\* self._page_rank = r; return {node_id: float(score) ...}
SparseReturn ==
    /\ call.op = "compute_sparse_page_rank"
    /\ call.pc \in {"broke", "exhausted"}
    /\ engine' = [engine EXCEPT !.page_rank = call.r]
    /\ call' = [call EXCEPT !.pc = "returned",
                            !.ret = ScoreDict(args.node_ids, call.r)]
    /\ UNCHANGED <<graph, last, args, seen>>

\* The dense computation is called and runs up to its loop with r = p.
DenseEnter ==
    /\ Idle
    /\ call' = Frame("compute_page_rank", "loop",
                     [matrix |-> get_normalized_matrix(args.node_ids,
                                     args.sparse_adjacency).matrix,
                      dangling_mask |-> get_normalized_matrix(args.node_ids,
                                            args.sparse_adjacency).dangling_mask,
                      p |-> DenseStart],
                     DenseStart, NoError)
    /\ UNCHANGED <<graph, last, engine, args, seen>>

\* One pass of the dense loop.
DensePass ==
    /\ call.op = "compute_page_rank"
    /\ call.pc = "loop"
    /\ range_has_next(engine, call.iteration)
    /\ \E r \in {dense_step(engine, call.ctx, call.r)} : Passed(r)

\* The dense loop has ended, by break or with its range exhausted (it has
\* no else branch), and the scores are returned.
DenseReturn ==
    /\ call.op = "compute_page_rank"
    /\ call.pc = "broke" \/ (call.pc = "loop" /\ ~range_has_next(engine, call.iteration))
    /\ call' = [call EXCEPT !.pc = "returned",
                            !.ret = ScoreDict(args.node_ids, call.r)]
    /\ UNCHANGED <<graph, last, engine, args, seen>>

\* The steps of a computation that is running.
LoopRun == SparsePass \/ SparseElse \/ SparseReturn \/ DensePass \/ DenseReturn

LoopNext == SparseEnter \/ DenseEnter \/ LoopRun

SpecLoop == LoopInit /\ [][LoopNext]_vars /\ WF_vars(LoopRun)

\* A computation is in its loop or between its loop and its return.
Running == IF call.op = "none" THEN FALSE ELSE call.pc \in {"loop", "broke", "exhausted"}

\* The computation called last has returned.
HasReturned == IF call.op = "none" THEN FALSE ELSE call.pc = "returned"

\* The passes made never exceed max_iterations, nor does the recorded
\* count; with max_iterations = 0 the vector returned is the start vector.
C21_Bounded ==
    /\ engine.iterations_performed <= engine.max_iterations
    /\ (call.op # "none" /\ call.pc # "raised")
           => /\ call.iteration <= engine.max_iterations
              /\ (call.pc = "returned" /\ engine.max_iterations = 0)
                     => /\ call.iteration = 0
                        /\ call.ret = ScoreDict(args.node_ids, call.start)
              /\ (call.pc = "returned" /\ call.op = "compute_sparse_page_rank")
                     => \/ engine.converged /\ engine.iterations_performed = call.iteration
                        \/ /\ ~engine.converged
                           /\ call.iteration = engine.max_iterations
                           /\ engine.iterations_performed = engine.max_iterations

\* C21: every computation terminates: whatever the input and the budget
\* max_iterations >= 0, a computation that has entered its loop makes at
\* most max_iterations passes and then returns, the sparse one converged or
\* exhausted; iterations_performed never exceeds max_iterations, and with
\* max_iterations = 0 no pass is made and the start vector is returned.
C21_Terminates ==
    /\ [](C21_Bounded)
    /\ (Running ~> HasReturned)

\* A sparse computation used its whole budget of two passes and returned.
C21_Witness ==
    /\ call.op = "compute_sparse_page_rank"
    /\ call.pc = "returned"
    /\ call.iteration = 2
    /\ ~engine.converged
    /\ engine.iterations_performed = 2

(***************************************************************************)
(* One pass of each loop on the same inputs.  The caller holds the weighted *)
(* adjacency the sparse computation reads (column j holds the outgoing      *)
(* weights of node j), a personalization vector p and a rank vector r_prev; *)
(* the dense computation is handed the graph with the same edges, whose     *)
(* get_normalized_matrix() returns the same M and the same dangling mask.   *)
(* seen keeps the rank vector each pass computed.                          *)
(***************************************************************************)
StepDampings == { Rat(1, 2), Rat(17, 20) }

StepInit ==
    /\ graph = NewGraph(TRUE)
    /\ last = NoCall
    /\ engine \in { engine_init(d, 1, Rat(1, 100000000), None, None).e : d \in StepDampings }
    /\ \E node_ids \in NodeLists :
          args \in [node_ids : {node_ids},
                    weighted_adj : SquareMatrices(Len(node_ids)),
                    p : { Arr(v) : v \in ProbVectors(Len(node_ids)) },
                    r_prev : { Arr(v) : v \in ProbVectors(Len(node_ids)) }]
    /\ call = NoEngineCall
    /\ seen = NothingSeen

\* The rank vector kept of the dense or of the sparse pass, if any.
Kept(pass) == IF seen = NothingSeen THEN NoneArray ELSE seen[pass]

\* The adjacency of the graph handed to the dense computation: its edge
\* from node j to node i weighs weighted_adj[i][j].
StepGraphAdjacency ==
    Arr([j \in 1..Len(args.weighted_adj) |-> Column(args.weighted_adj, j)])

\* matrix, dangling_mask and p as the dense loop reads them.
DenseContext ==
    [matrix |-> get_normalized_matrix(args.node_ids, StepGraphAdjacency).matrix,
     dangling_mask |-> get_normalized_matrix(args.node_ids, StepGraphAdjacency).dangling_mask,
     p |-> args.p]

\* One pass of the dense loop from r_prev.
DenseIteration ==
    /\ Kept("dense") = NoneArray
    /\ \E r \in {dense_step(engine, DenseContext, args.r_prev)} :
          /\ seen' = [dense |-> r, sparse |-> Kept("sparse")]
          /\ call' = [op |-> "compute_page_rank"]
    /\ UNCHANGED <<graph, last, engine, args>>

\* One pass of the sparse loop from r_prev.
SparseIteration ==
    /\ Kept("sparse") = NoneArray
    /\ \E r \in {sparse_step(engine, LoopContext(args.weighted_adj, args.p), args.r_prev)} :
          /\ seen' = [dense |-> Kept("dense"), sparse |-> r]
          /\ call' = [op |-> "compute_sparse_page_rank"]
    /\ UNCHANGED <<graph, last, engine, args>>

StepNext == DenseIteration \/ SparseIteration

SpecStep == StepInit /\ [][StepNext]_vars

\* M: the column-normalized adjacency restricted to the non-dangling columns.
StepM == NormalizeColumns(args.weighted_adj, OutDegree(args.weighted_adj))

\* The dangling set: the nodes without outgoing weight.
StepDangling == DanglingMask(OutDegree(args.weighted_adj))

\* (1 - alpha) * (M r + dangling_sum * p) + alpha * p
StepFormula(alpha, M, dangling, p, r) ==
    LET n == Len(r)
        dangling_sum == RSum(Arr([j \in 1..n |-> IF dangling[j] THEN r[j] ELSE Zero]))
    IN  Arr([i \in 1..n |->
            RAdd(RMul(RSub(One, alpha),
                      RAdd(RSum(Arr([j \in 1..n |-> RMul(M[i][j], r[j])])),
                           RMul(dangling_sum, p[i]))),
                 RMul(alpha, p[i]))])

\* Both loops were handed the same M and the same dangling set.
SameInputs ==
    /\ DenseContext.matrix = StepM
    /\ DenseContext.dangling_mask = StepDangling
    /\ LoopContext(args.weighted_adj, args.p).dangling_mask = StepDangling

\* C22: one pass of the dense loop and one pass of the sparse loop each
\* compute r_{t+1} = (1 - alpha) * (M r_t + dangling_sum_t * p) + alpha * p,
\* with M the column-normalized adjacency restricted to the non-dangling
\* columns, dangling_sum_t the total of r_t over the dangling nodes and p
\* the personalization vector; on the same M, p, alpha, dangling set and
\* r_t the two passes yield the same r_{t+1}.
C22_SameStep ==
    /\ SameInputs
    /\ Kept("dense") # NoneArray
           => Kept("dense") = StepFormula(engine.damping_factor, StepM, StepDangling,
                                          args.p, args.r_prev)
    /\ Kept("sparse") # NoneArray
           => Kept("sparse") = StepFormula(engine.damping_factor, StepM, StepDangling,
                                           args.p, args.r_prev)
    /\ (Kept("dense") # NoneArray /\ Kept("sparse") # NoneArray)
           => Kept("dense") = Kept("sparse")

\* Both passes were made on a graph with a dangling node that holds rank
\* and a node with outgoing weight, under a personalization vector that is
\* not uniform.
C22_Witness ==
    /\ Kept("dense") # NoneArray
    /\ Kept("sparse") # NoneArray
    /\ Len(args.p) = 2
    /\ StepDangling[1] /\ ~StepDangling[2]
    /\ RLt(Zero, args.r_prev[1])
    /\ args.p # UniformVector(2)

(***************************************************************************)
(* The sparse computation under each dangling strategy: the default        *)
(* Uniform one and Teleport, built with no vector or with a distribution   *)
(* over the n nodes of the graph the caller holds.                         *)
(***************************************************************************)
DanglingInit ==
    /\ graph = NewGraph(TRUE)
    /\ last = NoCall
    /\ args \in ProbeInputs
    /\ engine \in { engine_init(Rat(1, 2), mi, Rat(1, 1000), ds, None).e :
                       mi \in 0..MaxIterations,
                       ds \in {None, TeleportDanglingStrategy(NoneArray)}
                               \cup { TeleportDanglingStrategy(Arr(v)) :
                                        v \in ProbVectors(Len(args.node_ids)) } }
    /\ call = NoEngineCall
    /\ seen = NothingSeen

DanglingNext == SparseCall

SpecDangling == DanglingInit /\ [][DanglingNext]_vars

\* C23: compute_sparse_page_rank raises no error under either dangling
\* strategy, whatever the graph: also with a Teleport strategy, built with
\* a vector of length n or with none, on a graph of n nodes of which k are
\* dangling, 1 <= k < n, the strategy call on the n-by-k matrix of the
\* dangling columns succeeds and every node gets a score.
C23_SparseCompletes ==
    (call.op = "compute_sparse_page_rank")
        => /\ call.raised = NoError
           /\ DOMAIN call.ret = NodeSet(args.node_ids)

=============================================================================
